---- MODULE Spec2Model ----
(***************************************************************************)
(* Model of the status-polling functions of TenantService                  *)
(* (src/services.py: check_dataplane_status, check_bwce_capability_status, *)
(* check_flogo_capability_status) and of execute_commands_sequentially     *)
(* (src/utils.py).                                                         *)
(*                                                                         *)
(* Time is a discrete clock `now` counted from start_time.  A status       *)
(* request takes 0..MaxReqDur ticks (the session timeout bounds it), a     *)
(* time.sleep(poll_interval_seconds) takes poll_interval_seconds ticks.    *)
(* The clock stops at the request a function returns from: nothing reads   *)
(* it afterwards.                                                          *)
(* Fields of the vendor's JSON that the code only prints (message,         *)
(* tibtunnel_connected, names) are left out of the responses.              *)
(***************************************************************************)
EXTENDS Integers, Sequences, FiniteSets, TLC

\* ------------------------------------------------------------ bounds
MaxWait == 2      \* max_wait_seconds is drawn from 0..MaxWait
MaxPoll == 2      \* poll_interval_seconds is drawn from 1..MaxPoll
MaxReqDur == 1    \* a status request takes 0..MaxReqDur ticks
MaxDps == 2       \* a status response lists at most MaxDps dataplanes
MaxCmds == 3      \* a command list holds at most MaxCmds commands
MaxNameLen == 4   \* an application name has at most MaxNameLen characters (the docstring examples aside)

\* Cap of the loop counter; with poll_interval_seconds >= 1 the loop never
\* gets there (C2_PollingTerminates), a loop that forgets to sleep does.
MaxAttempts == MaxWait + 3

None == "None"

\* ------------------------------------------------------------ responses
RECURSIVE SeqsUpTo(_, _)
SeqsUpTo(S, n) ==
    IF n = 0 THEN {<<>>}
    ELSE LET shorter == SeqsUpTo(S, n - 1)
         IN  shorter \cup {Append(s, x) : s \in {t \in shorter : Len(t) = n - 1}, x \in S}

Svc(st) == [status |-> st]

\* Service lists of a capability: none, one service in each state, a mix.
ServiceLists ==
    { <<>>, <<Svc("green")>>, <<Svc("yellow")>>, <<Svc("absent")>>,
      <<Svc("green"), Svc("yellow")>> }

\* -- GET /cp/v1/data-planes-status (check_dataplane_status)
DpCap(st, svcs) == [status |-> st, services |-> svcs]

DpCapabilityLists ==
    { <<>>,
      <<DpCap("green", <<Svc("green")>>)>>,
      <<DpCap("yellow", <<Svc("green")>>)>>,
      <<DpCap("green", <<Svc("yellow")>>)>>,
      <<DpCap("green", <<Svc("green"), Svc("absent")>>),
        DpCap("yellow", <<Svc("green"), Svc("yellow")>>)>> }

DpIds == {"dp1", "dp2"}

StatusDataplanes ==
    [dp_id : DpIds, status : {"green", "yellow"}, capabilities : DpCapabilityLists]


\* -- GET /cp/v1/data-planes/{id}/capabilities-status (check_*_capability_status)
Cap(type, id, st, svcs) ==
    [capability |-> type, capability_instance_id |-> id, status |-> st, services |-> svcs]

CapabilityLists ==
    { <<>>,
      <<Cap("BWCE", "c1", "green", <<>>)>>,
      <<Cap("BWCE", "c1", "yellow", <<Svc("green")>>)>>,
      <<Cap("BWCE", "c1", "green", <<Svc("yellow")>>)>>,
      <<Cap("FLOGO", "c1", "green", <<Svc("green")>>)>>,
      <<Cap("FLOGO", "c1", "yellow", <<>>)>>,
      <<Cap("FLOGO", "c1", "green", <<Svc("green"), Svc("yellow")>>)>>,
      <<Cap("BWCE", "c2", "green", <<>>), Cap("BWCE", "c1", "yellow", <<>>)>>,
      <<Cap("FLOGO", "c1", "green", <<>>), Cap("BWCE", "c1", "green", <<Svc("green")>>)>>,
      <<Cap("BWCE", "c1", "green", <<>>), Cap("FLOGO", "c1", "yellow", <<>>)>>,
      <<Cap("FLOGO", "c2", "green", <<>>), Cap("FLOGO", "c1", "yellow", <<Svc("green")>>)>> }

CapabilityDataplanes == [dp_id : DpIds, capabilities : CapabilityLists]

\* What one GET can come back with.
Outcome(kind, dps) == [kind |-> kind, dataplanes |-> dps]

Failures == {Outcome("exception", <<>>), Outcome("http_error", <<>>)}

StatusResponses ==
    Failures \cup {Outcome("ok", dps) : dps \in SeqsUpTo(StatusDataplanes, MaxDps)}

CapabilityResponses ==
    Failures \cup {Outcome("ok", dps) : dps \in SeqsUpTo(CapabilityDataplanes, MaxDps)}

\* ------------------------------------------------------------ check_dataplane_status: one attempt
\* for service in services: a status outside ['green', 'absent'] clears all_green.
RECURSIVE ServiceLoop(_, _, _)
ServiceLoop(services, k, all_green) ==
    IF k > Len(services) THEN all_green
    ELSE LET svc_status == services[k].status
         IN  ServiceLoop(services, k + 1,
                 IF svc_status \notin {"green", "absent"} /\ svc_status # "green"
                 THEN FALSE ELSE all_green)

\* for cap in capabilities: counts green / non-green capabilities and walks the
\* services; acc is [all_green, cap_green, non_green_caps].
RECURSIVE CapabilityLoop(_, _, _)
CapabilityLoop(capabilities, k, acc) ==
    IF k > Len(capabilities) THEN acc
    ELSE LET cap == capabilities[k]
             counted == IF cap.status = "green"
                        THEN [acc EXCEPT !.cap_green = @ + 1]
                        ELSE [acc EXCEPT !.non_green_caps = Append(@, cap.status)]
         IN  CapabilityLoop(capabilities, k + 1,
                 [counted EXCEPT !.all_green = ServiceLoop(cap.services, 1, @)])

\* SkipDataplane without the target filter: every dataplane is walked.
SkipDataplaneNever(dataplane_id, dp_id) == FALSE

\* if dataplane_id and dp_id != dataplane_id: continue
SkipDataplane(dataplane_id, dp_id) == dataplane_id # None /\ dp_id # dataplane_id

\* for idx, dp in enumerate(dataplanes, 1); acc is
\* [all_green, target_found, dataplane_statuses].
RECURSIVE DataplaneLoop(_, _, _, _)
DataplaneLoop(dataplanes, idx, dataplane_id, acc) ==
    IF idx > Len(dataplanes) THEN acc
    ELSE LET dp == dataplanes[idx]
         IN  IF SkipDataplane(dataplane_id, dp.dp_id)
             THEN DataplaneLoop(dataplanes, idx + 1, dataplane_id, acc)
             ELSE LET caps == CapabilityLoop(dp.capabilities, 1,
                                  [all_green |-> acc.all_green, cap_green |-> 0,
                                   non_green_caps |-> <<>>])
                      entry == [id |-> dp.dp_id, status |-> dp.status,
                                cap_green |-> caps.cap_green,
                                cap_total |-> Len(dp.capabilities),
                                non_green_caps |-> caps.non_green_caps]
                  IN  DataplaneLoop(dataplanes, idx + 1, dataplane_id,
                          [all_green |-> IF dp.status # "green" THEN FALSE ELSE caps.all_green,
                           target_found |-> TRUE,
                           dataplane_statuses |-> Append(acc.dataplane_statuses, entry)])

\* The body of the loop for a 200 response with a non-empty list: all_green after the
\* walk and the "target not found" override, with the status table.
EvaluateDataplanes(dataplanes, dataplane_id) ==
    LET walked == DataplaneLoop(dataplanes, 1, dataplane_id,
                      [all_green |-> TRUE, target_found |-> FALSE,
                       dataplane_statuses |-> <<>>])
    IN  [all_green |-> IF dataplane_id # None /\ ~walked.target_found
                       THEN FALSE ELSE walked.all_green,
         dataplane_statuses |-> walked.dataplane_statuses]

\* The final status table built after the timeout: every dataplane of the response.
RECURSIVE CountGreen(_, _)
CountGreen(capabilities, k) ==
    IF k > Len(capabilities) THEN 0
    ELSE (IF capabilities[k].status = "green" THEN 1 ELSE 0) + CountGreen(capabilities, k + 1)

FinalStatuses(dataplanes) ==
    [i \in 1..Len(dataplanes) |->
        [id |-> dataplanes[i].dp_id, status |-> dataplanes[i].status,
         cap_green |-> CountGreen(dataplanes[i].capabilities, 1),
         cap_total |-> Len(dataplanes[i].capabilities)]]

\* ------------------------------------------------------------ check_*_capability_status: one attempt
\* FindCapability matching on the instance id alone.
RECURSIVE FindCapabilityAnyType(_, _, _, _)
FindCapabilityAnyType(capabilities, k, capability, capability_instance_id) ==
    IF k > Len(capabilities) THEN "capability_not_found"
    ELSE IF capabilities[k].capability_instance_id = capability_instance_id
         THEN (IF capabilities[k].status = "green" THEN "green" ELSE "not_green")
         ELSE FindCapabilityAnyType(capabilities, k + 1, capability, capability_instance_id)

\* for cap in capabilities: the first one matching type and instance id decides.
RECURSIVE FindCapability(_, _, _, _)
FindCapability(capabilities, k, capability, capability_instance_id) ==
    IF k > Len(capabilities) THEN "capability_not_found"
    ELSE IF /\ capabilities[k].capability = capability
            /\ capabilities[k].capability_instance_id = capability_instance_id
         THEN (IF capabilities[k].status = "green" THEN "green" ELSE "not_green")
         ELSE FindCapability(capabilities, k + 1, capability, capability_instance_id)

\* for dp in dataplanes: the first one with the dataplane id decides.
RECURSIVE FindDataplane(_, _, _, _, _)
FindDataplane(dataplanes, k, dataplane_id, capability, capability_instance_id) ==
    IF k > Len(dataplanes) THEN "dataplane_not_found"
    ELSE IF dataplanes[k].dp_id = dataplane_id
         THEN FindCapability(dataplanes[k].capabilities, 1, capability, capability_instance_id)
         ELSE FindDataplane(dataplanes, k + 1, dataplane_id, capability, capability_instance_id)

\* ------------------------------------------------------------ state
VARIABLES
    fn,                     \* the polling function called: "dataplane", "bwce", "flogo" ("none": not called)
    dataplane_id,           \* argument (None: check all dataplanes)
    capability_instance_id, \* argument of the capability checks
    max_wait_seconds,       \* argument
    poll_interval_seconds,  \* argument
    now,                    \* time.time() - start_time
    attempts,               \* local of the polling loop
    elapsed_time,           \* local: elapsed time measured at the start of the attempt
    pc,                     \* "loop", "request", "timeout", "done" ("idle": not called)
    result,                 \* the returned dict, once pc = "done"
    requests,               \* history: status requests sent by the polling loop
    final_requests,         \* history: status requests sent after the loop
    last_response,          \* history: the response the returned result was computed from
    target_entries,         \* history: the target dataplane's entries in the response of the attempt just made
    branch,                 \* history: the branch the attempt just made took ("none": no request made in it yet)
    sleep_calls,            \* history: time.sleep calls made by the last attempt that sent a request
    response_at,            \* history: the time at which the last response of the loop arrived
    commands,               \* argument of execute_commands_sequentially
    idx,                    \* position of the for loop over commands
    executed,               \* local counter
    failed,                 \* local counter
    results,                \* local list
    run_log,                \* history: how each attempted command ended
    exec_pc,                \* "start", "run", "done" ("idle": not called)
    exec_result             \* the returned dict, once exec_pc = "done"

\* -- state of the deployment and workflow sections
VARIABLES
    app_name,               \* argument of sanitize_app_name, a sequence of characters
    sanitized,              \* its return value, once san_pc = "done"
    san_pc                  \* "call", "done" ("idle": not called)

sanVars == <<app_name, sanitized, san_pc>>

SanIdle == app_name = <<>> /\ sanitized = <<>> /\ san_pc = "idle"

VARIABLES
    app_file,               \* deploy_bwce_app: "none" (no app_file_name), "missing", "present"
    bw_pc,                  \* the step deploy_bwce_app is at ("idle": not called)
    bw_log,                 \* the requests it sent, in order, each with its outcome
    bw_result               \* the returned dict, once bw_pc = "done"

bwVars == <<app_file, bw_pc, bw_log, bw_result>>

BwIdle ==
    /\ app_file = "none" /\ bw_pc = "idle" /\ bw_log = <<>>
    /\ bw_result = [success |-> FALSE, error |-> "unset"]

VARIABLES
    fg_file,                \* deploy_flogo_app: "none" (no app_file_name), "missing", "present"
    fg_pc,                  \* the step deploy_flogo_app is at ("idle": not called)
    fg_log,                 \* the requests it sent other than build-status polls, in order
    fg_status,              \* the last build status polled ("none": not polled yet)
    fg_start,               \* start_time of _wait_for_flogo_build
    fg_now,                 \* time.time()
    fg_result               \* the returned dict, once fg_pc = "done"

fgVars == <<fg_file, fg_pc, fg_log, fg_status, fg_start, fg_now, fg_result>>

FgIdle ==
    /\ fg_file = "none" /\ fg_pc = "idle" /\ fg_log = <<>> /\ fg_status = "none"
    /\ fg_start = 0 /\ fg_now = 0
    /\ fg_result = [success |-> FALSE, error |-> "unset"]

VARIABLES
    ctype,                  \* main(): the capability type followed, "BWCE" or "FLOGO" ("none": not run)
    wait_for_green,         \* <type>_capability_config.wait_for_green
    combined_enabled,       \* combined_capability_status_check.enabled
    other_successful,       \* whether the other type's successful_* list is non-empty
    deploy_to,              \* deploy_to_dataplanes of the application to deploy
    cap_results,            \* bwce_results / flogo_results: one dict per dataplane
    successful_caps,        \* successful_bwce / successful_flogo: positions of the dicts it holds
    provisioned_dps,        \* dataplanes_with_connectors
    app_results,            \* app_results["bwce_apps"] / ["flogo_apps"]
    deploy_sent,            \* the dataplanes a deploy request went to, in order
    cap_pc,                 \* the step main() is at ("idle": not run)
    cap_i                   \* the position of the loop of that step

capVars == <<ctype, wait_for_green, combined_enabled, other_successful, deploy_to,
            cap_results, successful_caps, provisioned_dps, app_results, deploy_sent,
            cap_pc, cap_i>>

CapIdle ==
    /\ ctype = "none" /\ wait_for_green = FALSE /\ combined_enabled = FALSE
    /\ other_successful = FALSE /\ deploy_to = <<>> /\ cap_results = <<>>
    /\ successful_caps = <<>> /\ provisioned_dps = {} /\ app_results = <<>>
    /\ deploy_sent = <<>> /\ cap_pc = "idle" /\ cap_i = 1

VARIABLES
    eula_pc,                \* the step submit_registration is at ("idle": not called)
    eula_tried,             \* the EULA methods attempted, in order, each with what it returned
    eula_result             \* what submit_registration returned: "True", "False" ("unset" before)

eulaVars == <<eula_pc, eula_tried, eula_result>>

EulaIdle ==
    eula_pc = "idle" /\ eula_tried = <<>> /\ eula_result = "unset"

VARIABLES
    dataplane_map,          \* deploy_apps_only.py: dataplane name -> green capability id or None
    dao_targets,            \* deploy_to_dataplanes of the application
    dao_results,            \* bwce_results / flogo_results of the script
    file_written,           \* whether deployed_apps.json was written
    file_apps,              \* the app entries written to it
    dao_pc,                 \* the step the script is at ("idle": not run)
    dao_i                   \* position in dao_targets

daoVars == <<dataplane_map, dao_targets, dao_results, file_written, file_apps, dao_pc, dao_i>>

DaoIdle ==
    /\ dataplane_map = <<>> /\ dao_targets = <<>> /\ dao_results = <<>>
    /\ file_written = FALSE /\ file_apps = <<>> /\ dao_pc = "idle" /\ dao_i = 1

VARIABLES
    sa_apps,                \* start_apps.py: the selected apps; TRUE: app_id, dataplane_id and capability_id all present
    sa_credentials,         \* whether config.json holds the user's e-mail and password
    sa_pc,                  \* the step the script is at ("idle": not run)
    sa_login_attempts,      \* login attempts made
    sa_requests,            \* positions in sa_apps of the apps a start request was sent for, in order
    sa_results,             \* the 'success' of each entry of results, in order
    sa_exit                 \* the value main() returned (-1: none yet)

saVars == <<sa_apps, sa_credentials, sa_pc, sa_login_attempts, sa_requests, sa_results, sa_exit>>

SaIdle ==
    /\ sa_apps = <<>> /\ sa_credentials = FALSE /\ sa_pc = "idle"
    /\ sa_login_attempts = 0 /\ sa_requests = <<>> /\ sa_results = <<>> /\ sa_exit = -1

VARIABLES
    already_exists,         \* main(), one prefix: whether the invited user is already listed
    invite_email,           \* whether invite_user_email is configured
    wf_pc,                  \* the step of the user part of the workflow ("idle": not run)
    wf_summary,             \* summary[...] of the invite, register and verification steps
    wf_session,             \* whose session new_user_service holds: "none", "cp_admin", "new_user"
    wf_invited,             \* whether invite_new_user was called
    wf_registered,          \* whether accept_invite.py was run
    wf_logins,              \* the outcome of each login attempt of the verification, in order
    wf_sleeps,              \* the waits made between login attempts, in order
    wf_step7,               \* whether step 7 (Register Dataplanes) was reached
    wf_dataplanes           \* whether dataplane registration was started

wfVars == <<already_exists, invite_email, wf_pc, wf_summary, wf_session, wf_invited,
           wf_registered, wf_logins, wf_sleeps, wf_step7, wf_dataplanes>>

WfIdle ==
    /\ already_exists = FALSE /\ invite_email = FALSE /\ wf_pc = "idle"
    /\ wf_summary = [invite |-> "Pending", accept |-> "Pending", verification |-> "Pending"]
    /\ wf_session = "none" /\ wf_invited = FALSE /\ wf_registered = FALSE
    /\ wf_logins = <<>> /\ wf_sleeps = <<>> /\ wf_step7 = FALSE /\ wf_dataplanes = FALSE

VARIABLES
    prefix_i,               \* main(): position in target_prefixes of the running iteration (0: not run)
    it_pc,                  \* the step of that iteration ("idle": not run)
    register_summary,       \* summary["Register Dataplanes"] of the iteration
    loc_all_results,        \* the local all_results: whether bound, which iteration bound it, whether a dataplane registered
    loc_bwce_results,       \* the local bwce_results: whether bound, which iteration bound it, whether non-empty
    loc_successful_bwce,    \* the local successful_bwce, likewise
    cfg_storage_id,         \* bwce_config['storage_resource_id']: the iteration that stored it (0: key absent)
    it_uses                 \* the reads of those values: reading iteration, name, producing iteration

itVars == <<prefix_i, it_pc, register_summary, loc_all_results, loc_bwce_results,
           loc_successful_bwce, cfg_storage_id, it_uses>>

ItIdle ==
    /\ prefix_i = 0 /\ it_pc = "idle" /\ register_summary = "Pending"
    /\ loc_all_results = [bound |-> FALSE, iter |-> 0, nonempty |-> FALSE]
    /\ loc_bwce_results = [bound |-> FALSE, iter |-> 0, nonempty |-> FALSE]
    /\ loc_successful_bwce = [bound |-> FALSE, iter |-> 0, nonempty |-> FALSE]
    /\ cfg_storage_id = 0 /\ it_uses = {}

\* Everything outside the polling functions and execute_commands_sequentially.
restVars == <<sanVars, bwVars, fgVars, capVars, eulaVars, daoVars, saVars, wfVars, itVars>>
RestIdle == SanIdle /\ BwIdle /\ FgIdle /\ CapIdle /\ EulaIdle /\ DaoIdle /\ SaIdle /\ WfIdle /\ ItIdle

pollVars == <<fn, dataplane_id, capability_instance_id, max_wait_seconds,
              poll_interval_seconds, now, attempts, elapsed_time, pc, result,
              requests, final_requests, last_response, target_entries,
              branch, sleep_calls, response_at>>
execVars == <<commands, idx, executed, failed, results, run_log, exec_pc, exec_result>>
vars == <<fn, dataplane_id, capability_instance_id, max_wait_seconds,
          poll_interval_seconds, now, attempts, elapsed_time, pc, result,
          requests, final_requests, last_response, target_entries,
          branch, sleep_calls, response_at,
          commands, idx, executed, failed, results, run_log, exec_pc, exec_result,
          restVars>>

NoResponse == Outcome("none", <<>>)
NoResult == [success |-> FALSE, status |-> "pending"]

PollIdle ==
    /\ fn = "none" /\ dataplane_id = None /\ capability_instance_id = None
    /\ max_wait_seconds = 0 /\ poll_interval_seconds = 1
    /\ now = 0 /\ attempts = 0 /\ elapsed_time = 0 /\ pc = "idle"
    /\ result = NoResult /\ requests = 0 /\ final_requests = 0
    /\ last_response = NoResponse /\ target_entries = <<>>
    /\ branch = "none" /\ sleep_calls = 0 /\ response_at = 0

ExecIdle ==
    /\ commands = <<>> /\ idx = 1 /\ executed = 0 /\ failed = 0
    /\ results = <<>> /\ run_log = <<>> /\ exec_pc = "idle"
    /\ exec_result = NoResult

\* -- for each section, the state of all the others
sanOthers == <<pollVars, execVars, bwVars, fgVars, capVars, eulaVars, daoVars, saVars, wfVars, itVars>>
SanOthersIdle == PollIdle /\ ExecIdle /\ BwIdle /\ FgIdle /\ CapIdle /\ EulaIdle /\ DaoIdle /\ SaIdle /\ WfIdle /\ ItIdle
bwOthers == <<pollVars, execVars, sanVars, fgVars, capVars, eulaVars, daoVars, saVars, wfVars, itVars>>
BwOthersIdle == PollIdle /\ ExecIdle /\ SanIdle /\ FgIdle /\ CapIdle /\ EulaIdle /\ DaoIdle /\ SaIdle /\ WfIdle /\ ItIdle
fgOthers == <<pollVars, execVars, sanVars, bwVars, capVars, eulaVars, daoVars, saVars, wfVars, itVars>>
FgOthersIdle == PollIdle /\ ExecIdle /\ SanIdle /\ BwIdle /\ CapIdle /\ EulaIdle /\ DaoIdle /\ SaIdle /\ WfIdle /\ ItIdle
capOthers == <<pollVars, execVars, sanVars, bwVars, fgVars, eulaVars, daoVars, saVars, wfVars, itVars>>
CapOthersIdle == PollIdle /\ ExecIdle /\ SanIdle /\ BwIdle /\ FgIdle /\ EulaIdle /\ DaoIdle /\ SaIdle /\ WfIdle /\ ItIdle
eulaOthers == <<pollVars, execVars, sanVars, bwVars, fgVars, capVars, daoVars, saVars, wfVars, itVars>>
EulaOthersIdle == PollIdle /\ ExecIdle /\ SanIdle /\ BwIdle /\ FgIdle /\ CapIdle /\ DaoIdle /\ SaIdle /\ WfIdle /\ ItIdle
daoOthers == <<pollVars, execVars, sanVars, bwVars, fgVars, capVars, eulaVars, saVars, wfVars, itVars>>
DaoOthersIdle == PollIdle /\ ExecIdle /\ SanIdle /\ BwIdle /\ FgIdle /\ CapIdle /\ EulaIdle /\ SaIdle /\ WfIdle /\ ItIdle
saOthers == <<pollVars, execVars, sanVars, bwVars, fgVars, capVars, eulaVars, daoVars, wfVars, itVars>>
SaOthersIdle == PollIdle /\ ExecIdle /\ SanIdle /\ BwIdle /\ FgIdle /\ CapIdle /\ EulaIdle /\ DaoIdle /\ WfIdle /\ ItIdle
wfOthers == <<pollVars, execVars, sanVars, bwVars, fgVars, capVars, eulaVars, daoVars, saVars, itVars>>
WfOthersIdle == PollIdle /\ ExecIdle /\ SanIdle /\ BwIdle /\ FgIdle /\ CapIdle /\ EulaIdle /\ DaoIdle /\ SaIdle /\ ItIdle
itOthers == <<pollVars, execVars, sanVars, bwVars, fgVars, capVars, eulaVars, daoVars, saVars, wfVars>>
ItOthersIdle == PollIdle /\ ExecIdle /\ SanIdle /\ BwIdle /\ FgIdle /\ CapIdle /\ EulaIdle /\ DaoIdle /\ SaIdle /\ WfIdle
\* -- end

\* A call of one of the three polling functions, up to "start_time = time.time();
\* attempts = 0".
PollInit ==
    /\ fn \in {"dataplane", "bwce", "flogo"}
    /\ IF fn = "dataplane"
       THEN dataplane_id \in {None, "dp1"} /\ capability_instance_id = None
       ELSE dataplane_id = "dp1" /\ capability_instance_id = "c1"
    /\ max_wait_seconds \in 0..MaxWait
    /\ poll_interval_seconds \in 1..MaxPoll
    /\ now = 0 /\ attempts = 0 /\ elapsed_time = 0 /\ pc = "loop"
    /\ result = NoResult /\ requests = 0 /\ final_requests = 0
    /\ last_response = NoResponse /\ target_entries = <<>>
    /\ branch = "none" /\ sleep_calls = 0 /\ response_at = 0
    /\ ExecIdle
    /\ RestIdle

\* ------------------------------------------------------------ the polling loops
\* SleepUntil with the sleep forgotten.
SleepUntilNoSleep(t, interval) == t

\* time.sleep(poll_interval_seconds), entered at time t.
SleepUntil(t, interval) == t + interval

\* The time after n calls of time.sleep(poll_interval_seconds) in a row.
RECURSIVE SleepTimes(_, _, _)
SleepTimes(t, interval, n) ==
    IF n = 0 THEN t ELSE SleepTimes(SleepUntil(t, interval), interval, n - 1)

\* The entries of the target dataplane in a response (none when all dataplanes
\* are checked); kept as history only.
TargetEntries(dataplanes, target) ==
    IF target = None THEN <<>>
    ELSE LET IsTarget(dp) == dp.dp_id = target IN SelectSeq(dataplanes, IsTarget)

\* TimeoutReached with a strict comparison.
TimeoutReachedStrict(elapsed, max_wait) == elapsed > max_wait

\* if elapsed_time >= max_wait_seconds
TimeoutReached(elapsed, max_wait) == elapsed >= max_wait

\* while True: attempts += 1; elapsed_time = ...; timeout check -> break
DataplaneBeginAttempt ==
    /\ fn = "dataplane" /\ pc = "loop" /\ attempts < MaxAttempts
    /\ attempts' = attempts + 1
    /\ elapsed_time' = now
    /\ pc' = IF TimeoutReached(now, max_wait_seconds) THEN "timeout" ELSE "request"
    /\ target_entries' = <<>>
    /\ branch' = "none"
    /\ UNCHANGED <<fn, dataplane_id, capability_instance_id, max_wait_seconds,
                   poll_interval_seconds, now, result, requests, final_requests,
                   last_response, sleep_calls, response_at>>
    /\ UNCHANGED <<execVars, restVars>>

\* The success dict of check_dataplane_status.
GreenResult(dataplanes, statuses, elapsed, n) ==
    [success |-> TRUE, all_green |-> TRUE, dataplanes |-> dataplanes,
     dataplane_statuses |-> statuses, elapsed_time |-> elapsed, attempts |-> n]

\* The branch one attempt of check_dataplane_status takes: "green" returns.
DataplaneVerdict(out, dataplane_id_arg) ==
    IF out.kind # "ok" THEN out.kind
    ELSE IF out.dataplanes = <<>> THEN "no_dataplanes"
    ELSE IF EvaluateDataplanes(out.dataplanes, dataplane_id_arg).all_green THEN "green"
    ELSE IF dataplane_id_arg # None /\ TargetEntries(out.dataplanes, dataplane_id_arg) = <<>>
         THEN "target_not_found"
    ELSE "not_green"

\* The time.sleep calls on each branch of the body of check_dataplane_status.
DataplaneSleeps(verdict) ==
    CASE verdict = "exception"        -> 1    \* except Exception: sleep
      [] verdict = "http_error"       -> 1    \* status code not 200: sleep
      [] verdict = "no_dataplanes"    -> 1    \* sleep; continue
      [] verdict = "target_not_found" -> 1    \* all_green = False, then the else of "if all_green"
      [] verdict = "not_green"        -> 1    \* the else of "if all_green"
      [] verdict = "green"            -> 0    \* return

\* try: resp = self.session.get(...) and everything the loop does with it.
DataplanePoll ==
    /\ fn = "dataplane" /\ pc = "request"
    /\ \E out \in StatusResponses :
         LET ev == EvaluateDataplanes(out.dataplanes, dataplane_id)
             verdict == DataplaneVerdict(out, dataplane_id)
         IN  /\ requests' = requests + 1
             /\ target_entries' = TargetEntries(out.dataplanes, dataplane_id)
             /\ branch' = verdict
             /\ sleep_calls' = DataplaneSleeps(verdict)
             /\ IF out.kind = "ok" /\ out.dataplanes # <<>> /\ ev.all_green
                THEN /\ result' = GreenResult(out.dataplanes, ev.dataplane_statuses,
                                              elapsed_time, attempts)
                     /\ last_response' = out
                     /\ pc' = "done"
                     /\ response_at' = now
                     /\ UNCHANGED now
                ELSE /\ \E dur \in 0..MaxReqDur :
                          /\ response_at' = now + dur
                          /\ now' = SleepTimes(now + dur, poll_interval_seconds,
                                               DataplaneSleeps(verdict))
                     /\ pc' = "loop"
                     /\ UNCHANGED <<result, last_response>>
    /\ UNCHANGED <<fn, dataplane_id, capability_instance_id, max_wait_seconds,
                   poll_interval_seconds, attempts, elapsed_time, final_requests>>
    /\ UNCHANGED <<execVars, restVars>>

\* TimeoutResult that believes the final response: green there is reported as success.
TimeoutResultTrustsFinal(out, final_elapsed, n) ==
    LET green == out.kind = "ok" /\ out.dataplanes # <<>>
                 /\ \A i \in 1..Len(out.dataplanes) : out.dataplanes[i].status = "green"
    IN  [success |-> green, all_green |-> green,
         dataplanes |-> IF out.kind = "ok" THEN out.dataplanes ELSE <<>>,
         dataplane_statuses |-> IF out.kind = "ok" THEN FinalStatuses(out.dataplanes) ELSE <<>>,
         elapsed_time |-> final_elapsed, attempts |-> n, error |-> "Timeout reached"]

\* The dict returned after the timeout, from the outcome of the final request.
TimeoutResult(out, final_elapsed, n) ==
    IF out.kind = "ok" /\ out.dataplanes # <<>>
    THEN [success |-> FALSE, all_green |-> FALSE, dataplanes |-> out.dataplanes,
          dataplane_statuses |-> FinalStatuses(out.dataplanes),
          elapsed_time |-> final_elapsed, attempts |-> n, error |-> "Timeout reached"]
    ELSE [success |-> FALSE, all_green |-> FALSE, dataplanes |-> <<>>,
          dataplane_statuses |-> <<>>,
          elapsed_time |-> final_elapsed, attempts |-> n, error |-> "Timeout reached"]

\* After the break: final_elapsed, one more GET, the final summary, return.
DataplaneFinalStatus ==
    /\ fn = "dataplane" /\ pc = "timeout"
    /\ \E out \in StatusResponses :
         /\ final_requests' = final_requests + 1
         /\ result' = TimeoutResult(out, now, attempts)
         /\ last_response' = out
    /\ pc' = "done"
    /\ UNCHANGED <<fn, dataplane_id, capability_instance_id, max_wait_seconds,
                   poll_interval_seconds, now, attempts, elapsed_time, requests,
                   target_entries, branch, sleep_calls, response_at>>
    /\ UNCHANGED <<execVars, restVars>>

CapabilityOf(f) == IF f = "bwce" THEN "BWCE" ELSE "FLOGO"

\* while True: attempts += 1; elapsed_time = ...; timeout check -> return
CapabilityBeginAttempt(f) ==
    /\ fn = f /\ pc = "loop" /\ attempts < MaxAttempts
    /\ attempts' = attempts + 1
    /\ elapsed_time' = now
    /\ IF TimeoutReached(now, max_wait_seconds)
       THEN /\ result' = [success |-> FALSE, status |-> "timeout",
                          elapsed_time |-> now, attempts |-> attempts + 1]
            /\ pc' = "done"
       ELSE /\ pc' = "request"
            /\ UNCHANGED result
    /\ branch' = "none"
    /\ UNCHANGED <<fn, dataplane_id, capability_instance_id, max_wait_seconds,
                   poll_interval_seconds, now, requests, final_requests, last_response,
                   target_entries, sleep_calls, response_at>>
    /\ UNCHANGED <<execVars, restVars>>

\* What one attempt finds: "green" returns, everything else sleeps.
CapabilityVerdict(out, dp, capability, instance) ==
    IF out.kind # "ok" THEN out.kind
    ELSE IF out.dataplanes = <<>> THEN "no_dataplanes"
    ELSE FindDataplane(out.dataplanes, 1, dp, capability, instance)

\* ElseRuns for an else clause that runs however the loop ended.
ElseRunsAlways(left_by_break) == TRUE

\* for ... else: the else clause runs when the loop ended without a break.
ElseRuns(left_by_break) == ~left_by_break

\* The else clause of "for cap in capabilities": one sleep when it runs.
CapLoopElseSleeps(left_by_break) == IF ElseRuns(left_by_break) THEN 1 ELSE 0

\* The else clause of "for dp in dataplanes": one sleep when it runs.
DpLoopElseSleeps(left_by_break) == IF ElseRuns(left_by_break) THEN 1 ELSE 0

\* The time.sleep calls on each branch of the body of check_*_capability_status.
CapabilitySleeps(verdict) ==
    CASE verdict = "exception"            -> 1    \* except Exception: sleep
      [] verdict = "http_error"           -> 1    \* status code not 200: sleep
      [] verdict = "no_dataplanes"        -> 1    \* sleep; continue
      [] verdict = "dataplane_not_found"  -> DpLoopElseSleeps(FALSE)
      [] verdict = "capability_not_found" -> CapLoopElseSleeps(FALSE) + DpLoopElseSleeps(TRUE)
      [] verdict = "not_green"            -> 1 + CapLoopElseSleeps(TRUE) + DpLoopElseSleeps(TRUE)
      [] verdict = "green"                -> 0    \* return

\* try: resp = self.session.get(...) and everything the loop does with it.
CapabilityPoll(f) ==
    /\ fn = f /\ pc = "request"
    /\ \E out \in CapabilityResponses :
         LET verdict == CapabilityVerdict(out, dataplane_id, CapabilityOf(f),
                                          capability_instance_id)
         IN  /\ requests' = requests + 1
             /\ branch' = verdict
             /\ sleep_calls' = CapabilitySleeps(verdict)
             /\ IF verdict = "green"
                THEN /\ result' = [success |-> TRUE, status |-> "green",
                                   elapsed_time |-> elapsed_time, attempts |-> attempts]
                     /\ last_response' = out
                     /\ pc' = "done"
                     /\ response_at' = now
                     /\ UNCHANGED now
                ELSE /\ \E dur \in 0..MaxReqDur :
                          /\ response_at' = now + dur
                          /\ now' = SleepTimes(now + dur, poll_interval_seconds,
                                               CapabilitySleeps(verdict))
                     /\ pc' = "loop"
                     /\ UNCHANGED <<result, last_response>>
    /\ UNCHANGED <<fn, dataplane_id, capability_instance_id, max_wait_seconds,
                   poll_interval_seconds, attempts, elapsed_time, final_requests,
                   target_entries>>
    /\ UNCHANGED <<execVars, restVars>>

BwceBeginAttempt == CapabilityBeginAttempt("bwce")
BwcePoll == CapabilityPoll("bwce")
FlogoBeginAttempt == CapabilityBeginAttempt("flogo")
FlogoPoll == CapabilityPoll("flogo")

\* ------------------------------------------------------------ execute_commands_sequentially
\* A command string: its text and whether it is a kubectl heredoc ('<<EOF' and
\* 'kubectl' in it, with a body the regular expression matches).
CommandTexts == {"a", "b"}
Commands == [text : CommandTexts, form : {"plain", "heredoc"}]

\* The heredoc rewrite: "<kubectl part> -f <temp file>".
ConvertHeredoc(command) ==
    IF command.form = "heredoc" THEN [command EXCEPT !.form = "tempfile"] ELSE command

\* How one iteration can end: subprocess.run returns 0 or not, raises
\* TimeoutExpired, raises something else; or writing the temp file raises
\* before the command was rewritten.
RunOutcomes(command) ==
    {"rc0", "nonzero", "timeout", "error"}
        \cup (IF command.form = "heredoc" THEN {"tempfile_error"} ELSE {})

\* executed += 1 sits right after subprocess.run returned.
ExecutedAfter(outcome, n) == IF outcome \in {"rc0", "nonzero"} THEN n + 1 ELSE n

\* FailedAfter counting non-zero return codes only.
FailedAfterReturnCodeOnly(outcome, n) == IF outcome = "nonzero" THEN n + 1 ELSE n

\* failed += 1: non-zero return code, TimeoutExpired, any other exception.
FailedAfter(outcome, n) == IF outcome = "rc0" THEN n ELSE n + 1

\* The dict appended to results.
ResultEntry(command, outcome) ==
    LET ran == IF outcome = "tempfile_error" THEN command ELSE ConvertHeredoc(command)
    IN  [command |-> ran,
         returncode |-> CASE outcome = "rc0" -> 0
                          [] outcome = "nonzero" -> 1
                          [] OTHER -> -1,
         error |-> CASE outcome = "timeout" -> "Command timed out"
                     [] outcome \in {"error", "tempfile_error"} -> "exception"
                     [] OTHER -> ""]

\* The dict returned after the loop.
Summary(cmds, n_executed, n_failed, res) ==
    [success |-> n_failed = 0, total_commands |-> Len(cmds),
     executed |-> n_executed, failed |-> n_failed, results |-> res]

ExecInit ==
    /\ commands \in SeqsUpTo(Commands, MaxCmds)
    /\ idx = 1 /\ executed = 0 /\ failed = 0 /\ results = <<>> /\ run_log = <<>>
    /\ exec_pc = "start" /\ exec_result = NoResult
    /\ PollIdle
    /\ RestIdle

\* if not commands: return {...}; else results = [], executed = 0, failed = 0
ExecBegin ==
    /\ exec_pc = "start"
    /\ IF commands = <<>>
       THEN /\ exec_result' = [success |-> FALSE, total_commands |-> 0, executed |-> 0,
                               failed |-> 0, results |-> <<>>]
            /\ exec_pc' = "done"
       ELSE /\ exec_pc' = "run"
            /\ UNCHANGED exec_result
    /\ UNCHANGED <<commands, idx, executed, failed, results, run_log>>
    /\ UNCHANGED <<pollVars, restVars>>

\* RunCommand leaving the loop at the first command that does not return 0.
RunCommandStopOnFailure ==
    /\ exec_pc = "run" /\ idx <= Len(commands)
    /\ \E outcome \in RunOutcomes(commands[idx]) :
         /\ executed' = ExecutedAfter(outcome, executed)
         /\ failed' = FailedAfter(outcome, failed)
         /\ results' = Append(results, ResultEntry(commands[idx], outcome))
         /\ run_log' = Append(run_log, [index |-> idx, outcome |-> outcome])
         /\ idx' = IF outcome = "rc0" THEN idx + 1 ELSE Len(commands) + 1
    /\ UNCHANGED <<commands, exec_pc, exec_result>>
    /\ UNCHANGED <<pollVars, restVars>>

\* One iteration of "for idx, command in enumerate(commands, 1)".
RunCommand ==
    /\ exec_pc = "run" /\ idx <= Len(commands)
    /\ \E outcome \in RunOutcomes(commands[idx]) :
         /\ executed' = ExecutedAfter(outcome, executed)
         /\ failed' = FailedAfter(outcome, failed)
         /\ results' = Append(results, ResultEntry(commands[idx], outcome))
         /\ run_log' = Append(run_log, [index |-> idx, outcome |-> outcome])
    /\ idx' = idx + 1
    /\ UNCHANGED <<commands, exec_pc, exec_result>>
    /\ UNCHANGED <<pollVars, restVars>>

\* The loop is over: print the summary, return.
ExecReturn ==
    /\ exec_pc = "run" /\ idx > Len(commands)
    /\ exec_result' = Summary(commands, executed, failed, results)
    /\ exec_pc' = "done"
    /\ UNCHANGED <<commands, idx, executed, failed, results, run_log>>
    /\ UNCHANGED <<pollVars, restVars>>

\* ------------------------------------------------------------ RestApiDeployer.sanitize_app_name
\* Strings are sequences of one-character strings.  ASCII only: str.lower() on
\* other alphabets is not modelled.
UpperCase == <<"A", "B", "C", "D", "E", "F", "G", "H", "I", "J", "K", "L", "M",
               "N", "O", "P", "Q", "R", "S", "T", "U", "V", "W", "X", "Y", "Z">>
LowerCase == <<"a", "b", "c", "d", "e", "f", "g", "h", "i", "j", "k", "l", "m",
               "n", "o", "p", "q", "r", "s", "t", "u", "v", "w", "x", "y", "z">>
Digits == {"0", "1", "2", "3", "4", "5", "6", "7", "8", "9"}

\* The names sanitize_app_name is called with: every string over NameChars up to
\* MaxNameLen, and the two examples of the docstring.
NameChars == {"A", "b", "7", "_", "-", "!"}
ExampleCamel == <<"B", "W", "C", "E", "T", "i", "m", "e", "r", "L", "o", "g">>
ExampleSnake == <<"M", "y", "_", "A", "p", "p", "_", "N", "a", "m", "e">>
AppNames == SeqsUpTo(NameChars, MaxNameLen) \cup {ExampleCamel, ExampleSnake}

\* name = app_name.lower()
LowerChar(c) ==
    IF \E i \in 1..Len(UpperCase) : UpperCase[i] = c
    THEN LowerCase[CHOOSE i \in 1..Len(UpperCase) : UpperCase[i] = c]
    ELSE c

LowerName(name) == [i \in 1..Len(name) |-> LowerChar(name[i])]

\* name = name.replace('_', '-')
ReplaceUnderscores(name) == [i \in 1..Len(name) |-> IF name[i] = "_" THEN "-" ELSE name[i]]

\* name = re.sub(r'[^a-z0-9-]', '', name)
RemoveDisallowed(name) ==
    LET Kept(c) == (\E i \in 1..Len(LowerCase) : LowerCase[i] = c) \/ c \in Digits \/ c = "-"
    IN  SelectSeq(name, Kept)

\* StripHyphens that strips nothing.
StripHyphensNone(name) == name

\* name = name.strip('-')
RECURSIVE StripHyphens(_)
StripHyphens(name) ==
    IF name = <<>> THEN name
    ELSE IF Head(name) = "-" THEN StripHyphens(Tail(name))
    ELSE IF name[Len(name)] = "-" THEN StripHyphens(SubSeq(name, 1, Len(name) - 1))
    ELSE name

\* name = re.sub(r'-+', '-', name)
RECURSIVE CollapseHyphens(_)
CollapseHyphens(name) ==
    IF Len(name) < 2 THEN name
    ELSE IF name[1] = "-" /\ name[2] = "-" THEN CollapseHyphens(Tail(name))
    ELSE <<name[1]>> \o CollapseHyphens(Tail(name))

sanitize_app_name(name) ==
    CollapseHyphens(StripHyphens(RemoveDisallowed(ReplaceUnderscores(LowerName(name)))))

SanInit ==
    /\ app_name \in AppNames /\ sanitized = <<>> /\ san_pc = "call"
    /\ SanOthersIdle

\* The call and its return.
Sanitize ==
    /\ san_pc = "call"
    /\ sanitized' = sanitize_app_name(app_name)
    /\ san_pc' = "done"
    /\ UNCHANGED app_name
    /\ UNCHANGED sanOthers


\* ------------------------------------------------------------ deploy_bwce_app
\* The requests of the BWCE flow.  "build_status" is the request of
\* _wait_for_bwce_build, which deploy_bwce_app never calls.
BwceRequests ==
    {"store", "list_versions", "list_available", "provision", "create_build",
     "build_status", "deploy"}

\* What a request can come back with: the answer the step needs ("ok"), an
\* answer it treats as failure ("fail"), or an exception out of the session.
ReqOutcomes == {"ok", "fail", "raise"}

Unset == [success |-> FALSE, error |-> "unset"]

Failure(msg) == [success |-> FALSE, error |-> msg]

Sent(log, req) == \E i \in 1..Len(log) : log[i].req = req

\* Position of the first request req in log, 0 if it was not sent.
FirstSent(log, req) ==
    IF Sent(log, req)
    THEN CHOOSE i \in 1..Len(log) :
            /\ log[i].req = req
            /\ \A j \in 1..(i - 1) : log[j].req # req
    ELSE 0

BwceDeployInit ==
    /\ app_file \in {"none", "missing", "present"}
    /\ bw_pc = "start" /\ bw_log = <<>> /\ bw_result = Unset
    /\ BwOthersIdle

BwceReturn(res) ==
    /\ bw_pc' = "done"
    /\ bw_result' = res

\* One request of the flow: it is logged with its outcome; an exception is
\* caught by the function's try block and returned as the error.
BwceRequest(req, out, next, failure) ==
    /\ bw_log' = Append(bw_log, [req |-> req, out |-> out])
    /\ CASE out = "ok"    -> bw_pc' = next /\ UNCHANGED bw_result
         [] out = "fail"  -> BwceReturn(failure)
         [] out = "raise" -> BwceReturn(Failure("exception"))
    /\ UNCHANGED <<app_file, bwOthers>>

BwceCheckFile ==
    /\ bw_pc = "start"
    /\ CASE app_file = "none"    -> BwceReturn(Failure("No app_file_name provided"))
         [] app_file = "missing" -> BwceReturn(Failure("File not found"))
         [] app_file = "present" -> bw_pc' = "store" /\ UNCHANGED bw_result
    /\ UNCHANGED <<app_file, bw_log, bwOthers>>

BwceStore ==
    /\ bw_pc = "store"
    /\ \E out \in ReqOutcomes :
        BwceRequest("store", out, "list_versions", Failure("File upload failed"))

\* _list_provisioned_bwce_versions: "ok" is a non-empty list, "fail" an empty
\* one.  The first empty list leads to provisioning; an empty list after
\* provisioning makes provisioned_versions[0] raise.
BwceListVersions ==
    /\ bw_pc \in {"list_versions", "relist_versions"}
    /\ \E out \in ReqOutcomes :
        /\ bw_log' = Append(bw_log, [req |-> "list_versions", out |-> out])
        /\ CASE out = "ok" -> bw_pc' = "create_build" /\ UNCHANGED bw_result
             [] out = "fail" /\ bw_pc = "list_versions" ->
                    bw_pc' = "list_available" /\ UNCHANGED bw_result
             [] OTHER -> BwceReturn(Failure("exception"))
    /\ UNCHANGED <<app_file, bwOthers>>

\* _provision_latest_bwce_version, first request: the catalog of versions.
BwceListAvailable ==
    /\ bw_pc = "list_available"
    /\ \E out \in ReqOutcomes :
        BwceRequest("list_available", out, "provision",
                    Failure("Failed to provision BWCE version"))

\* _provision_latest_bwce_version, second request: provision the latest.
BwceProvision ==
    /\ bw_pc = "provision"
    /\ \E out \in ReqOutcomes :
        BwceRequest("provision", out, "relist_versions",
                    Failure("Failed to provision BWCE version"))

\* Whether deploy_bwce_app goes on to the deploy step after _create_bwce_build.
BuildCreatedAlways(out) == out \in {"ok", "fail"}

BuildCreated(out) == out = "ok"

BwceCreateBuild ==
    /\ bw_pc = "create_build"
    /\ \E out \in ReqOutcomes :
        /\ bw_log' = Append(bw_log, [req |-> "create_build", out |-> out])
        /\ CASE BuildCreated(out) -> bw_pc' = "deploy" /\ UNCHANGED bw_result
             [] ~BuildCreated(out) /\ out = "raise" -> BwceReturn(Failure("exception"))
             [] OTHER -> BwceReturn(Failure("build not created"))
    /\ UNCHANGED <<app_file, bwOthers>>

\* Step 4 follows the build request at once; no build-status request is made.
BwceDeploy ==
    /\ bw_pc = "deploy"
    /\ \E out \in ReqOutcomes :
        /\ bw_log' = Append(bw_log, [req |-> "deploy", out |-> out])
        /\ CASE out = "ok"    -> BwceReturn([success |-> TRUE, error |-> None])
             [] out = "fail"  -> BwceReturn(Failure("HTTP error"))
             [] out = "raise" -> BwceReturn(Failure("exception"))
    /\ UNCHANGED <<app_file, bwOthers>>


\* ------------------------------------------------------------ deploy_flogo_app
\* Defaults of _wait_for_flogo_build, which deploy_flogo_app calls without
\* overriding them.
FlogoBuildMaxWait == 300

FlogoBuildPollInterval == 10

\* What one build-status poll can observe: a status string of a 200 response
\* (in any letter case), a response that is not 200, or an exception.
BuildStatuses ==
    {"success", "SUCCESS", "completed", "failed", "Failed", "error", "building", ""}

PollOutcomes == BuildStatuses \cup {"not200", "exception"}

\* status.lower()
LowerStatus(s) ==
    CASE s = "SUCCESS" -> "success"
      [] s = "Failed"  -> "failed"
      [] OTHER         -> s

\* _wait_for_flogo_build returns True on this poll.
BuildSucceededUnlessFailed(o) ==
    o \in BuildStatuses /\ LowerStatus(o) \notin {"failed", "error"}

BuildSucceeded(o) ==
    o \in BuildStatuses /\ LowerStatus(o) \in {"success", "completed"}

\* _wait_for_flogo_build returns False on this poll.
BuildFailed(o) ==
    o \in BuildStatuses /\ LowerStatus(o) \in {"failed", "error"}

BuildFailedOrTimedOut == Failure("Build failed or timed out")

FlogoDeployInit ==
    /\ fg_file \in {"none", "missing", "present"}
    /\ fg_pc = "start" /\ fg_log = <<>> /\ fg_status = "none"
    /\ fg_start = 0 /\ fg_now = 0 /\ fg_result = Unset
    /\ FgOthersIdle

FlogoReturn(res) ==
    /\ fg_pc' = "done"
    /\ fg_result' = res

FlogoCheckFile ==
    /\ fg_pc = "start"
    /\ CASE fg_file = "none"    -> FlogoReturn(Failure("No app_file_name provided"))
         [] fg_file = "missing" -> FlogoReturn(Failure("File not found"))
         [] fg_file = "present" -> fg_pc' = "store" /\ UNCHANGED fg_result
    /\ UNCHANGED <<fg_file, fg_log, fg_status, fg_start, fg_now, fgOthers>>

FlogoStore ==
    /\ fg_pc = "store"
    /\ \E out \in ReqOutcomes :
        /\ fg_log' = Append(fg_log, [req |-> "store", out |-> out])
        /\ CASE out = "ok"    -> fg_pc' = "capability_info" /\ UNCHANGED fg_result
             [] out = "fail"  -> FlogoReturn(Failure("File upload failed"))
             [] out = "raise" -> FlogoReturn(Failure("exception"))
    /\ UNCHANGED <<fg_file, fg_status, fg_start, fg_now, fgOthers>>

\* _get_flogo_capability_info: a response that is not 200 gives {} and the
\* default version, so only an exception stops the flow here.
FlogoGetCapabilityInfo ==
    /\ fg_pc = "capability_info"
    /\ \E out \in ReqOutcomes :
        /\ fg_log' = Append(fg_log, [req |-> "capability_info", out |-> out])
        /\ CASE out \in {"ok", "fail"} -> fg_pc' = "create_build" /\ UNCHANGED fg_result
             [] out = "raise"          -> FlogoReturn(Failure("exception"))
    /\ UNCHANGED <<fg_file, fg_status, fg_start, fg_now, fgOthers>>

\* On success _wait_for_flogo_build is entered: start_time = time.time().
FlogoCreateBuild ==
    /\ fg_pc = "create_build"
    /\ \E out \in ReqOutcomes :
        /\ fg_log' = Append(fg_log, [req |-> "create_build", out |-> out])
        /\ CASE out = "ok"    -> fg_pc' = "wait" /\ UNCHANGED fg_result
             [] out = "fail"  -> FlogoReturn(Failure("build not created"))
             [] out = "raise" -> FlogoReturn(Failure("exception"))
    /\ fg_start' = fg_now
    /\ UNCHANGED <<fg_file, fg_status, fg_now, fgOthers>>

\* The loop condition of _wait_for_flogo_build; when it fails the function
\* returns False and deploy_flogo_app returns without deploying.
FlogoWaitCondition ==
    /\ fg_pc = "wait"
    /\ IF fg_now - fg_start < FlogoBuildMaxWait
       THEN fg_pc' = "poll" /\ UNCHANGED fg_result
       ELSE FlogoReturn(BuildFailedOrTimedOut)
    /\ UNCHANGED <<fg_file, fg_log, fg_status, fg_start, fg_now, fgOthers>>

\* One pass of the loop body: the status request, which takes some time, then
\* a return or the sleep.
FlogoPollBuild ==
    /\ fg_pc = "poll"
    /\ \E o \in PollOutcomes, dur \in 0..MaxReqDur :
        /\ fg_status' = o
        /\ CASE o = "exception"    -> FlogoReturn(Failure("exception")) /\ UNCHANGED fg_now
             [] BuildSucceeded(o)  -> fg_pc' = "deploy" /\ UNCHANGED <<fg_result, fg_now>>
             [] ~BuildSucceeded(o) /\ BuildFailed(o) ->
                    FlogoReturn(BuildFailedOrTimedOut) /\ UNCHANGED fg_now
             [] OTHER ->
                    /\ fg_now' = fg_now + dur + FlogoBuildPollInterval
                    /\ fg_pc' = "wait" /\ UNCHANGED fg_result
    /\ UNCHANGED <<fg_file, fg_log, fg_start, fgOthers>>

FlogoDeployFinal ==
    /\ fg_pc = "deploy"
    /\ \E out \in ReqOutcomes :
        /\ fg_log' = Append(fg_log, [req |-> "deploy", out |-> out])
        /\ CASE out = "ok"    -> FlogoReturn([success |-> TRUE, error |-> None])
             [] out = "fail"  -> FlogoReturn(Failure("HTTP error"))
             [] out = "raise" -> FlogoReturn(Failure("exception"))
    /\ UNCHANGED <<fg_file, fg_status, fg_start, fg_now, fgOthers>>


\* ------------------------------------------------------------ main(): capabilities and application deployment
\* all_results: the dataplanes of the run, in registration order.
AllResults == <<"dp1", "dp2">>

\* deploy_to_dataplanes lists: a registered dataplane, two of them, one that
\* was never registered, the same one twice.
DeployTargets ==
    {<<"dp1">>, <<"dp2", "dp1">>, <<"dp1", "dp9">>, <<"dp2", "dp2">>}

\* The positions, from i on, of the dicts of res with a true 'success'.
RECURSIVE SuccessfulFrom(_, _)
SuccessfulFrom(res, i) ==
    IF i > Len(res) THEN <<>>
    ELSE IF res[i].success THEN <<i>> \o SuccessfulFrom(res, i + 1)
    ELSE SuccessfulFrom(res, i + 1)

\* [r for r in bwce_results if r.get('success')]: a new list of the same dicts.
SuccessfulOf(res) == SuccessfulFrom(res, 1)

\* green_dataplanes / flogo_green_dataplanes: built from the successful list
\* without looking at 'success' again.
GreenDataplanes(res, succ) ==
    {res[succ[k]].dataplane_name : k \in 1..Len(succ)}

NotGreenError(t) ==
    IF t = "BWCE" THEN "Dataplane not green" ELSE "Flogo capability not green"

CapInit ==
    /\ ctype \in {"BWCE", "FLOGO"}
    /\ wait_for_green \in BOOLEAN /\ combined_enabled \in BOOLEAN
    /\ other_successful \in (IF ctype = "BWCE" THEN BOOLEAN ELSE {FALSE})
    /\ deploy_to \in DeployTargets
    /\ cap_results = <<>> /\ successful_caps = <<>> /\ provisioned_dps = {}
    /\ app_results = <<>> /\ deploy_sent = <<>>
    /\ cap_pc = "provision" /\ cap_i = 1
    /\ CapOthersIdle

\* Step 9 / 9.5, one dataplane of all_results: skipped when its registration
\* failed; a failure dict when the dataplane is not green or provisioning
\* fails; otherwise the capability id with the outcome of the status check
\* (wait_for_green) or success without any check.
ProvisionCapability ==
    /\ cap_pc = "provision" /\ cap_i <= Len(AllResults)
    /\ \E outcome \in {"skip", "failed", "provisioned"}, green \in BOOLEAN :
        /\ (outcome # "provisioned" \/ ~wait_for_green) => green
        /\ CASE outcome = "skip" -> UNCHANGED cap_results
             [] outcome = "failed" ->
                    cap_results' = Append(cap_results,
                        [dataplane_name |-> AllResults[cap_i], success |-> FALSE,
                         capability_instance_id |-> None, status |-> "none"])
             [] outcome = "provisioned" ->
                    cap_results' = Append(cap_results,
                        [dataplane_name |-> AllResults[cap_i],
                         success |-> IF wait_for_green THEN green ELSE TRUE,
                         capability_instance_id |-> AllResults[cap_i],
                         status |-> IF ~wait_for_green THEN "provisioned"
                                    ELSE IF green THEN "green" ELSE "timeout"])
    /\ cap_i' = cap_i + 1
    /\ UNCHANGED <<ctype, wait_for_green, combined_enabled, other_successful, deploy_to,
                   successful_caps, provisioned_dps, app_results, deploy_sent, cap_pc,
                   capOthers>>

\* The summary after the provisioning loop fixes successful_bwce /
\* successful_flogo.
CapabilitySummary ==
    /\ cap_pc = "provision" /\ cap_i > Len(AllResults)
    /\ successful_caps' = SuccessfulOf(cap_results)
    /\ cap_pc' = IF combined_enabled /\ Len(cap_results) > 0 THEN "combined" ELSE "deploy"
    /\ cap_i' = 1
    /\ UNCHANGED <<ctype, wait_for_green, combined_enabled, other_successful, deploy_to,
                   cap_results, provisioned_dps, app_results, deploy_sent, capOthers>>

\* Step 9.9, one dict of the results list: a dict without capability id is
\* passed over, any other gets the outcome of a fresh status check written
\* into it.  The successful list is not rebuilt.
CombinedStatusCheck ==
    /\ cap_pc = "combined"
    /\ IF cap_i > Len(cap_results)
       THEN /\ cap_pc' = "deploy" /\ cap_i' = 1
            /\ UNCHANGED cap_results
       ELSE /\ cap_i' = cap_i + 1 /\ UNCHANGED cap_pc
            /\ IF cap_results[cap_i].capability_instance_id = None
               THEN UNCHANGED cap_results
               ELSE \E green \in BOOLEAN :
                        cap_results' = [cap_results EXCEPT
                            ![cap_i].success = green,
                            ![cap_i].status = IF green THEN "green" ELSE "timeout"]
    /\ UNCHANGED <<ctype, wait_for_green, combined_enabled, other_successful, deploy_to,
                   successful_caps, provisioned_dps, app_results, deploy_sent, capOthers>>

\* Whether step 10 runs the deployment loop of this type at all.
DeployLoopEntered ==
    \/ Len(successful_caps) > 0
    \/ ctype = "BWCE" /\ other_successful

\* Step 10, one dataplane name of deploy_to_dataplanes.
DeployApplication ==
    /\ cap_pc = "deploy"
    /\ IF ~DeployLoopEntered \/ cap_i > Len(deploy_to)
       THEN /\ cap_pc' = "done"
            /\ UNCHANGED <<cap_i, provisioned_dps, app_results, deploy_sent>>
       ELSE LET dp_name == deploy_to[cap_i] IN
            /\ cap_i' = cap_i + 1 /\ UNCHANGED cap_pc
            /\ IF dp_name \notin GreenDataplanes(cap_results, successful_caps)
               THEN /\ app_results' = Append(app_results,
                            [dataplane |-> dp_name, success |-> FALSE,
                             error |-> NotGreenError(ctype)])
                    /\ UNCHANGED <<provisioned_dps, deploy_sent>>
               ELSE \E buildtype_ok \in BOOLEAN, deployed \in BOOLEAN :
                    IF ctype = "FLOGO" /\ dp_name \notin provisioned_dps /\ ~buildtype_ok
                    THEN /\ app_results' = Append(app_results,
                                [dataplane |-> dp_name, success |-> FALSE,
                                 error |-> "Buildtype provisioning failed"])
                         /\ UNCHANGED <<provisioned_dps, deploy_sent>>
                    ELSE /\ provisioned_dps' = provisioned_dps \cup {dp_name}
                         /\ deploy_sent' = Append(deploy_sent, dp_name)
                         /\ app_results' = Append(app_results,
                                [dataplane |-> dp_name, success |-> deployed,
                                 error |-> IF deployed THEN None ELSE "deploy failed"])
    /\ UNCHANGED <<ctype, wait_for_green, combined_enabled, other_successful, deploy_to,
                   cap_results, successful_caps, capOthers>>


\* ------------------------------------------------------------ submit_registration
USE_API_METHOD == TRUE

\* What an EULA method can do: return True, return False, or raise.
\* accept_eula_fallback catches every exception itself.
EulaOutcomes(method) ==
    IF method = "fallback" THEN {"True", "False"} ELSE {"True", "False", "raise"}

\* Whether submit_registration goes on to the next method after this outcome.
TryNextMethodAlways(out) == out \in {"True", "False"}

TryNextMethod(out) == out = "False"

EulaInit ==
    /\ eula_pc = "register" /\ eula_tried = <<>> /\ eula_result = "unset"
    /\ EulaOthersIdle

EulaReturn(value) ==
    /\ eula_pc' = "done"
    /\ eula_result' = value

\* The reset-password request and the reading of its answer: an error status
\* or an exception returns False; a success answer without redirectUrl, or
\* one that is not JSON, returns True; one with redirectUrl starts the EULA
\* methods.
RegisterUser ==
    /\ eula_pc = "register"
    /\ \E answer \in {"http_error", "raise", "no_redirect", "not_json", "redirect"} :
        CASE answer \in {"http_error", "raise"}    -> EulaReturn("False")
          [] answer \in {"no_redirect", "not_json"} -> EulaReturn("True")
          [] answer = "redirect" ->
                /\ eula_pc' = IF USE_API_METHOD THEN "api" ELSE "selenium"
                /\ UNCHANGED eula_result
    /\ UNCHANGED <<eula_tried, eulaOthers>>

\* One EULA method: a raise is caught by the except around the EULA step,
\* which returns True.
AcceptEula(method, next) ==
    /\ eula_pc = method
    /\ \E out \in EulaOutcomes(method) :
        /\ eula_tried' = Append(eula_tried, [method |-> method, out |-> out])
        /\ IF out = "raise" THEN EulaReturn("True")
           ELSE IF TryNextMethod(out) /\ next # "none"
                THEN eula_pc' = next /\ UNCHANGED eula_result
                ELSE EulaReturn(out)
    /\ UNCHANGED eulaOthers

AcceptEulaApi == AcceptEula("api", "selenium")

AcceptEulaSelenium == AcceptEula("selenium", "fallback")

AcceptEulaFallback == AcceptEula("fallback", "none")


\* ------------------------------------------------------------ deploy_apps_only.py
\* The names the script binds at module level: its imports.
ModuleImports ==
    {"json", "sys", "SAMLAuthenticator", "TenantService",
     "generate_tenant_relay_state", "RestApiDeployer"}

\* Whether evaluating a global name succeeds or raises NameError.
NameDefined(name) == name \in ModuleImports

\* The dataplanes of the status response with, for each, the id of its green
\* capability of the type wanted, or None.
DataplaneMaps == [{"dp1", "dp2"} -> {None, "cap"}]

\* The entries of deployed_apps.json for a results list: one for each
\* successful result with an app_id.
RECURSIVE DeployedEntries(_, _, _)
DeployedEntries(res, map, i) ==
    IF i > Len(res) THEN <<>>
    ELSE IF res[i].success /\ res[i].app_id # None
         THEN <<[app_id |-> res[i].app_id,
                 dataplane_name |-> res[i].dataplane,
                 dataplane_id |-> res[i].dataplane,
                 capability_id |-> map[res[i].dataplane]]>>
              \o DeployedEntries(res, map, i + 1)
         ELSE DeployedEntries(res, map, i + 1)

DaoInit ==
    /\ dataplane_map \in DataplaneMaps
    /\ dao_targets \in DeployTargets
    /\ dao_results = <<>> /\ file_written = FALSE /\ file_apps = <<>>
    /\ dao_pc = "deploy" /\ dao_i = 1
    /\ DaoOthersIdle

\* Steps 3 and 4, one dataplane name: a failure result when the name is not
\* in the map or its capability is not green, otherwise the result of the
\* deployer, whose app_id may be missing even on success.
DaoDeploy ==
    /\ dao_pc = "deploy"
    /\ IF dao_i > Len(dao_targets)
       THEN dao_pc' = "save" /\ UNCHANGED <<dao_results, dao_i>>
       ELSE LET dp_name == dao_targets[dao_i] IN
            /\ dao_i' = dao_i + 1 /\ UNCHANGED dao_pc
            /\ IF dp_name \notin DOMAIN dataplane_map
               THEN dao_results' = Append(dao_results,
                        [dataplane |-> dp_name, success |-> FALSE, app_id |-> None,
                         error |-> "Dataplane not found"])
               ELSE IF dataplane_map[dp_name] = None
               THEN dao_results' = Append(dao_results,
                        [dataplane |-> dp_name, success |-> FALSE, app_id |-> None,
                         error |-> "capability not green"])
               ELSE \E out \in {"app", "no_app_id", "failed"} :
                    dao_results' = Append(dao_results,
                        [dataplane |-> dp_name, success |-> out # "failed",
                         app_id |-> IF out # "app" THEN None
                                   ELSE IF dao_i = 1 THEN "app1" ELSE "app2",
                         error |-> IF out = "failed" THEN "deploy failed" ELSE None])
    /\ UNCHANGED <<dataplane_map, dao_targets, file_written, file_apps, daoOthers>>

\* The save block: its first statement evaluates time.strftime; a NameError
\* there is caught by the block's except, which only prints a warning.
\* Otherwise the file is written when there is at least one entry.
DaoSave ==
    /\ dao_pc = "save"
    /\ dao_pc' = "done"
    /\ IF NameDefined("time") /\ Len(DeployedEntries(dao_results, dataplane_map, 1)) > 0
       THEN /\ file_written' = TRUE
            /\ file_apps' = DeployedEntries(dao_results, dataplane_map, 1)
       ELSE UNCHANGED <<file_written, file_apps>>
    /\ UNCHANGED <<dataplane_map, dao_targets, dao_results, dao_i, daoOthers>>


\* ------------------------------------------------------------ start_apps.py
max_retries == 3

\* The methods class SAMLAuthenticator defines.
SAMLAuthenticatorMethods ==
    {"__init__", "extract_form_data", "get_dynamic_relay_state", "run_login_flow", "logout"}

\* Whether auth.<name> resolves or raises AttributeError.
MethodDefined(name) == name \in SAMLAuthenticatorMethods

\* The contents of deployed_apps.json after --bwce-only / --flogo-only.
SelectedApps == SeqsUpTo(BOOLEAN, 2)

\* The first attempt (from 1) at which login succeeds, 0 if none of the
\* max_retries attempts does.
FirstLogin(ok) ==
    IF \E a \in 1..max_retries : ok[a]
    THEN CHOOSE a \in 1..max_retries : ok[a] /\ \A b \in 1..(a - 1) : ~ok[b]
    ELSE 0

\* The start loops: a request for each app with all three ids.
RECURSIVE StartRequests(_, _)
StartRequests(apps, i) ==
    IF i > Len(apps) THEN <<>>
    ELSE IF apps[i] THEN <<i>> \o StartRequests(apps, i + 1)
    ELSE StartRequests(apps, i + 1)

\* The results of the start loops: failure for an app with missing
\* information, otherwise what the start request gave.
StartResults(apps, started) ==
    [i \in 1..Len(apps) |-> apps[i] /\ started[i]]

AllStarted(res) == \A i \in 1..Len(res) : res[i]

SaInit ==
    /\ sa_apps \in SelectedApps /\ sa_credentials \in BOOLEAN
    /\ sa_pc = "load" /\ sa_login_attempts = 0
    /\ sa_requests = <<>> /\ sa_results = <<>> /\ sa_exit = -1
    /\ SaOthersIdle

\* Up to the login: nothing selected returns 0, missing credentials return 1.
SaLoad ==
    /\ sa_pc = "load"
    /\ IF Len(sa_apps) = 0 THEN sa_pc' = "done" /\ sa_exit' = 0
       ELSE IF ~sa_credentials THEN sa_pc' = "done" /\ sa_exit' = 1
       ELSE sa_pc' = "login" /\ UNCHANGED sa_exit
    /\ UNCHANGED <<sa_apps, sa_credentials, sa_login_attempts, sa_requests, sa_results,
                   saOthers>>

\* From the login to the return.  The first attempt evaluates
\* auth.login_with_saml_flow; the AttributeError of a missing method is caught
\* by the except of the login block, which returns 1.  Otherwise: up to
\* max_retries attempts, then the start loops and the exit code.
SaLoginAndStart ==
    /\ sa_pc = "login"
    /\ sa_pc' = "done"
    /\ IF ~MethodDefined("login_with_saml_flow")
       THEN /\ sa_login_attempts' = 1
            /\ sa_exit' = 1
            /\ UNCHANGED <<sa_requests, sa_results>>
       ELSE \E ok \in [1..max_retries -> BOOLEAN], started \in [1..Len(sa_apps) -> BOOLEAN] :
            IF FirstLogin(ok) = 0
            THEN /\ sa_login_attempts' = max_retries
                 /\ sa_exit' = 1
                 /\ UNCHANGED <<sa_requests, sa_results>>
            ELSE /\ sa_login_attempts' = FirstLogin(ok)
                 /\ sa_requests' = StartRequests(sa_apps, 1)
                 /\ sa_results' = StartResults(sa_apps, started)
                 /\ sa_exit' = IF AllStarted(StartResults(sa_apps, started)) THEN 0 ELSE 1
    /\ UNCHANGED <<sa_apps, sa_credentials, saOthers>>


\* ------------------------------------------------------------ main(): invitation, registration, login verification
\* max_retries of the new-user login verification.
new_user_max_retries == 5

PendingSummary == [invite |-> "Pending", accept |-> "Pending", verification |-> "Pending"]

\* "Pass" in <summary value>, over the values the verification entry takes.
ContainsPass(value) == value \in {"Pass", "Pass (Existing)"}

\* wait_time after a failed attempt.
WaitTimeFlat(attempt) == 15

WaitTime(attempt) == 15 * attempt

\* After the CP login succeeded, for one target prefix.
WfInit ==
    /\ already_exists \in BOOLEAN /\ invite_email \in BOOLEAN
    /\ wf_pc = "check_user" /\ wf_summary = PendingSummary
    /\ wf_session = "none" /\ wf_invited = FALSE /\ wf_registered = FALSE
    /\ wf_logins = <<>> /\ wf_sleeps = <<>> /\ wf_step7 = FALSE /\ wf_dataplanes = FALSE
    /\ WfOthersIdle

\* if already_exists: the summary entries and the CP admin session are set,
\* and that is the whole branch; steps 4 to 10 are the else branch.
CheckUserExists ==
    /\ wf_pc = "check_user"
    /\ IF already_exists
       THEN /\ wf_summary' = [invite |-> "Pass (Existing)", accept |-> "Pass (Existing)",
                              verification |-> "Pass (Existing)"]
            /\ wf_session' = "cp_admin"
            /\ wf_pc' = "summary"
       ELSE /\ wf_pc' = "invite"
            /\ UNCHANGED <<wf_summary, wf_session>>
    /\ UNCHANGED <<already_exists, invite_email, wf_invited, wf_registered, wf_logins,
                   wf_sleeps, wf_step7, wf_dataplanes, wfOthers>>

\* Step 4.
InviteNewUser ==
    /\ wf_pc = "invite"
    /\ IF ~invite_email
       THEN /\ wf_summary' = [wf_summary EXCEPT !.invite = "Skipped", !.accept = "Skipped"]
            /\ wf_pc' = "step7"
            /\ UNCHANGED wf_invited
       ELSE /\ wf_invited' = TRUE
            /\ \E ok \in BOOLEAN :
                IF ok
                THEN /\ wf_summary' = [wf_summary EXCEPT !.invite = "Pass"]
                     /\ wf_pc' = "accept"
                ELSE /\ wf_summary' = [wf_summary EXCEPT !.invite = "Fail", !.accept = "Skipped"]
                     /\ wf_pc' = "step7"
    /\ UNCHANGED <<already_exists, invite_email, wf_session, wf_registered, wf_logins,
                   wf_sleeps, wf_step7, wf_dataplanes, wfOthers>>

\* Step 4.1: accept_invite.py as a subprocess.
AcceptAndRegister ==
    /\ wf_pc = "accept"
    /\ wf_registered' = TRUE
    /\ \E out \in {"rc0", "nonzero", "raise"} :
        CASE out = "rc0" ->
                /\ wf_summary' = [wf_summary EXCEPT !.accept = "Pass"]
                /\ wf_pc' = "verify"
          [] out = "nonzero" ->
                /\ wf_summary' = [wf_summary EXCEPT !.accept = "Fail (Script Error)"]
                /\ wf_pc' = "step7"
          [] out = "raise" ->
                /\ wf_summary' = [wf_summary EXCEPT !.accept = "Error"]
                /\ wf_pc' = "step7"
    /\ UNCHANGED <<already_exists, invite_email, wf_session, wf_invited, wf_logins,
                   wf_sleeps, wf_step7, wf_dataplanes, wfOthers>>

\* Step 5, one pass of the retry loop: the login (with its second try on the
\* generated RelayState), then break, sleep, or the end of the loop.
NewUserLoginAttempt ==
    /\ wf_pc = "verify"
    /\ \E out \in {"ok", "fail", "raise"} :
        LET attempt == Len(wf_logins) + 1 IN
        /\ wf_logins' = Append(wf_logins, out)
        /\ CASE out = "ok" ->
                    /\ wf_summary' = [wf_summary EXCEPT !.verification = "Pass"]
                    /\ wf_session' = "new_user"
                    /\ wf_pc' = "step7"
                    /\ UNCHANGED wf_sleeps
             [] out = "raise" ->
                    /\ wf_summary' = [wf_summary EXCEPT !.verification = "Fail"]
                    /\ wf_pc' = "step7"
                    /\ UNCHANGED <<wf_sleeps, wf_session>>
             [] out = "fail" /\ attempt < new_user_max_retries ->
                    /\ wf_sleeps' = Append(wf_sleeps, WaitTime(attempt))
                    /\ UNCHANGED <<wf_summary, wf_session, wf_pc>>
             [] out = "fail" /\ attempt >= new_user_max_retries ->
                    /\ wf_summary' = [wf_summary EXCEPT
                                        !.verification = "Fail (Permissions Pending)"]
                    /\ wf_pc' = "step7"
                    /\ UNCHANGED <<wf_sleeps, wf_session>>
    /\ UNCHANGED <<already_exists, invite_email, wf_invited, wf_registered, wf_step7,
                   wf_dataplanes, wfOthers>>

\* Step 7: dataplane registration, if the verification entry contains "Pass".
RegisterDataplanes ==
    /\ wf_pc = "step7"
    /\ wf_step7' = TRUE
    /\ wf_dataplanes' = ContainsPass(wf_summary.verification)
    /\ wf_pc' = "summary"
    /\ UNCHANGED <<already_exists, invite_email, wf_summary, wf_session, wf_invited,
                   wf_registered, wf_logins, wf_sleeps, wfOthers>>

\* print_summary(summary) ends the prefix.
PrintSummaryStep ==
    /\ wf_pc = "summary"
    /\ wf_pc' = "done"
    /\ UNCHANGED <<already_exists, invite_email, wf_summary, wf_session, wf_invited,
                   wf_registered, wf_logins, wf_sleeps, wf_step7, wf_dataplanes, wfOthers>>


\* ------------------------------------------------------------ main(): the loop over target_prefixes
\* Two prefixes; BWCE, Flogo, resource creation, the combined status check
\* and application deployment are enabled and dpCount is 1.
TargetPrefixes == <<"p1", "p2">>

\* A local name of main() that no iteration has bound yet.
Unbound == [bound |-> FALSE, iter |-> 0, nonempty |-> FALSE]

\* A list bound by iteration i.
BoundBy(i, nonempty) == [bound |-> TRUE, iter |-> i, nonempty |-> nonempty]

\* The values of summary["Register Dataplanes"] that let steps 8 and 9 run.
PrerequisitesMet(reg) == reg \notin {"Pending", "Skipped (dpCount=0)", "Error", "Fail"}

Use(name, produced) == [iter |-> prefix_i, name |-> name, produced |-> produced]

\* main() is entered: no local is bound; the first prefix starts.
ItInit ==
    /\ prefix_i = 1 /\ it_pc = "verify" /\ register_summary = "Pending"
    /\ loc_all_results = Unbound /\ loc_bwce_results = Unbound
    /\ loc_successful_bwce = Unbound
    /\ cfg_storage_id = 0 /\ it_uses = {}
    /\ ItOthersIdle

\* Steps 1 to 6 of a prefix: summary is a new dict; everything from step 7
\* on runs only if the login verification passed.
ItReachStep7 ==
    /\ it_pc = "verify"
    /\ register_summary' = "Pending"
    /\ \E passed \in BOOLEAN : it_pc' = IF passed THEN "register" ELSE "next"
    /\ UNCHANGED <<prefix_i, loc_all_results, loc_bwce_results, loc_successful_bwce,
                   cfg_storage_id, it_uses, itOthers>>

\* Step 7: all_results = [] and the registration of the dataplane.
ItRegisterDataplanes ==
    /\ it_pc = "register"
    /\ \E registered \in BOOLEAN :
        /\ loc_all_results' = BoundBy(prefix_i, registered)
        /\ register_summary' = IF registered THEN "Pass (1/1)" ELSE "Fail"
    /\ it_pc' = "provision"
    /\ UNCHANGED <<prefix_i, loc_bwce_results, loc_successful_bwce, cfg_storage_id,
                   it_uses, itOthers>>

\* Steps 9 and 9.5.  Only under the prerequisites are bwce_results and
\* successful_bwce bound anew; the storage resource is created first and its
\* id stored in bwce_config, which is a dict of config and outlives the
\* iteration; when neither creation nor lookup gives an id the dataplane gets
\* a failure result.  Flogo provisioning then copies whatever id bwce_config
\* holds.
ItProvisionCapabilities ==
    /\ it_pc = "provision"
    /\ IF PrerequisitesMet(register_summary)
       THEN \E storage \in {"created", "existing", "failed"}, green \in BOOLEAN :
            LET stored == IF storage = "failed" THEN cfg_storage_id ELSE prefix_i IN
            /\ cfg_storage_id' = stored
            /\ loc_bwce_results' = BoundBy(prefix_i, TRUE)
            /\ loc_successful_bwce' = BoundBy(prefix_i, storage # "failed" /\ green)
            /\ it_uses' = IF stored = 0 THEN it_uses
                          ELSE it_uses \cup {Use("storage_resource_id", stored)}
       ELSE UNCHANGED <<cfg_storage_id, loc_bwce_results, loc_successful_bwce, it_uses>>
    /\ it_pc' = "combined"
    /\ UNCHANGED <<prefix_i, register_summary, loc_all_results, itOthers>>

\* Step 9.9: 'bwce_results' in locals() and len(bwce_results) > 0, then the
\* loop over bwce_results.
ItCombinedCheck ==
    /\ it_pc = "combined"
    /\ it_uses' = IF loc_bwce_results.bound /\ loc_bwce_results.nonempty
                  THEN it_uses \cup {Use("bwce_results", loc_bwce_results.iter)}
                  ELSE it_uses
    /\ it_pc' = "deploy"
    /\ UNCHANGED <<prefix_i, register_summary, loc_all_results, loc_bwce_results,
                   loc_successful_bwce, cfg_storage_id, itOthers>>

\* Step 10: successful_bwce = [] only if the name is not bound; the deployment
\* block runs on a non-empty list and reads it.
ItDeployApplications ==
    /\ it_pc = "deploy"
    /\ loc_successful_bwce' =
            IF loc_successful_bwce.bound THEN loc_successful_bwce
            ELSE BoundBy(prefix_i, FALSE)
    /\ it_uses' = IF loc_successful_bwce.bound /\ loc_successful_bwce.nonempty
                  THEN it_uses \cup {Use("successful_bwce", loc_successful_bwce.iter)}
                  ELSE it_uses
    /\ it_pc' = "next"
    /\ UNCHANGED <<prefix_i, register_summary, loc_all_results, loc_bwce_results,
                   cfg_storage_id, itOthers>>

\* print_summary and the next prefix: the locals of main() stay as they are.
ItNextPrefix ==
    /\ it_pc = "next"
    /\ IF prefix_i < Len(TargetPrefixes)
       THEN prefix_i' = prefix_i + 1 /\ it_pc' = "verify"
       ELSE it_pc' = "done" /\ UNCHANGED prefix_i
    /\ UNCHANGED <<register_summary, loc_all_results, loc_bwce_results,
                   loc_successful_bwce, cfg_storage_id, it_uses, itOthers>>

\* ------------------------------------------------------------ specification
Init == PollInit \/ ExecInit \/ SanInit \/ BwceDeployInit \/ FlogoDeployInit \/ CapInit \/ EulaInit \/ DaoInit \/ SaInit \/ WfInit \/ ItInit

Next ==
    \/ DataplaneBeginAttempt
    \/ DataplanePoll
    \/ DataplaneFinalStatus
    \/ BwceBeginAttempt
    \/ BwcePoll
    \/ FlogoBeginAttempt
    \/ FlogoPoll
    \/ ExecBegin
    \/ RunCommand
    \/ ExecReturn
    \/ Sanitize
    \/ BwceCheckFile
    \/ BwceStore
    \/ BwceListVersions
    \/ BwceListAvailable
    \/ BwceProvision
    \/ BwceCreateBuild
    \/ BwceDeploy
    \/ FlogoCheckFile
    \/ FlogoStore
    \/ FlogoGetCapabilityInfo
    \/ FlogoCreateBuild
    \/ FlogoWaitCondition
    \/ FlogoPollBuild
    \/ FlogoDeployFinal
    \/ ProvisionCapability
    \/ CapabilitySummary
    \/ CombinedStatusCheck
    \/ DeployApplication
    \/ RegisterUser
    \/ AcceptEulaApi
    \/ AcceptEulaSelenium
    \/ AcceptEulaFallback
    \/ DaoDeploy
    \/ DaoSave
    \/ SaLoad
    \/ SaLoginAndStart
    \/ CheckUserExists
    \/ InviteNewUser
    \/ AcceptAndRegister
    \/ NewUserLoginAttempt
    \/ RegisterDataplanes
    \/ PrintSummaryStep
    \/ ItReachStep7
    \/ ItRegisterDataplanes
    \/ ItProvisionCapabilities
    \/ ItCombinedCheck
    \/ ItDeployApplications
    \/ ItNextPrefix

Spec == Init /\ [][Next]_vars

\* The script is single-threaded and always takes its next step.
FairSpec == Spec /\ WF_vars(Next)

\* ------------------------------------------------------------ claims: the polling functions
IsCapabilityCheck == fn \in {"bwce", "flogo"}

Min(S) == CHOOSE x \in S : \A y \in S : x <= y

\* A dataplane the check is about: all of them, or the target alone.
Considered(dp) == dataplane_id = None \/ dp.dp_id = dataplane_id

AllComponentsGreen(dataplanes) ==
    \A i \in 1..Len(dataplanes) :
        Considered(dataplanes[i]) =>
            /\ dataplanes[i].status = "green"
            /\ \A c \in 1..Len(dataplanes[i].capabilities) :
                 LET cap == dataplanes[i].capabilities[c]
                 IN  /\ cap.status = "green"
                     /\ \A v \in 1..Len(cap.services) :
                          cap.services[v].status \in {"green", "absent"}

\* C1: check_dataplane_status returns success / all_green only if, in the response
\* of that attempt, every considered dataplane, every capability of it and every
\* service of those capabilities is "green" (a service reported "absent" is not
\* deployed and is not counted as a component here).
C1_GreenOnlyIfAllComponentsGreen ==
    (fn = "dataplane" /\ pc = "done" /\ result.success) =>
        /\ result.all_green
        /\ AllComponentsGreen(last_response.dataplanes)

\* C2: for every max_wait_seconds, every poll_interval_seconds > 0 and every
\* sequence of status-endpoint outcomes each polling function returns after a
\* finite number of attempts: attempt k >= 2 starts only while
\* (k - 2) * poll_interval_seconds < max_wait_seconds, the function can always
\* take its next step until it has returned, and it returns either green or
\* with the timeout elapsed.
C2_PollingTerminates ==
    fn # "none" =>
        /\ attempts >= 2 => (attempts - 2) * poll_interval_seconds < max_wait_seconds
        /\ pc = "done" => (result.success \/ elapsed_time >= max_wait_seconds)
        /\ pc # "done" => ENABLED Next

\* The same as a liveness property of FairSpec.
PollingReturns == (pc \in {"loop", "request", "timeout"}) ~> (pc = "done")

C2_Witness ==
    /\ IsCapabilityCheck /\ pc = "done" /\ ~result.success
    /\ requests >= 2 /\ elapsed_time > max_wait_seconds

\* The capability entry a capability check decides on: the first entry of the
\* given dataplane, and in it the first capability of the wanted type and
\* instance id.
TargetDataplanes(dataplanes) ==
    {i \in 1..Len(dataplanes) : dataplanes[i].dp_id = dataplane_id}

WantedCapabilities(capabilities) ==
    {k \in 1..Len(capabilities) :
        /\ capabilities[k].capability = (IF fn = "bwce" THEN "BWCE" ELSE "FLOGO")
        /\ capabilities[k].capability_instance_id = capability_instance_id}

HasDecidingCapability(dataplanes) ==
    /\ TargetDataplanes(dataplanes) # {}
    /\ WantedCapabilities(dataplanes[Min(TargetDataplanes(dataplanes))].capabilities) # {}

DecidingCapability(dataplanes) ==
    LET capabilities == dataplanes[Min(TargetDataplanes(dataplanes))].capabilities
    IN  capabilities[Min(WantedCapabilities(capabilities))]

\* C3 (as claimed): a capability check returns success only if the capability
\* of the wanted type and instance id on the given dataplane is green and every
\* service nested under it is green.
C3_SuccessNeedsGreenServices ==
    (IsCapabilityCheck /\ pc = "done" /\ result.success) =>
        /\ HasDecidingCapability(last_response.dataplanes)
        /\ LET cap == DecidingCapability(last_response.dataplanes)
           IN  /\ cap.status = "green"
               /\ \A v \in 1..Len(cap.services) : cap.services[v].status = "green"

\* C3 (amended): a capability check returns success only if the capability of
\* the wanted type and instance id on the given dataplane is green in the
\* response of that attempt; the services under it do not enter the result.
C3_SuccessNeedsGreenCapability ==
    (IsCapabilityCheck /\ pc = "done" /\ result.success) =>
        /\ result.status = "green"
        /\ HasDecidingCapability(last_response.dataplanes)
        /\ DecidingCapability(last_response.dataplanes).status = "green"

C3_Witness ==
    /\ IsCapabilityCheck /\ pc = "done" /\ result.success
    /\ HasDecidingCapability(last_response.dataplanes)
    /\ LET cap == DecidingCapability(last_response.dataplanes)
       IN  \E v \in 1..Len(cap.services) : cap.services[v].status # "green"

\* C4: in the capability checks an attempt that starts with elapsed time >=
\* max_wait_seconds returns {success: False, status: "timeout"} without sending
\* a request, and a timeout is never returned from an attempt that started with
\* elapsed time < max_wait_seconds.
C4_TimeoutAtAttemptStart ==
    /\ [](IsCapabilityCheck =>
            /\ pc = "request" => elapsed_time < max_wait_seconds
            /\ (pc = "done" /\ ~result.success) =>
                  /\ result.status = "timeout"
                  /\ result.elapsed_time = elapsed_time
                  /\ elapsed_time >= max_wait_seconds)
    /\ [][(IsCapabilityCheck /\ pc = "loop" /\ now >= max_wait_seconds) =>
            /\ pc' = "done"
            /\ result'.success = FALSE /\ result'.status = "timeout"
            /\ requests' = requests]_vars

C4_Witness ==
    /\ IsCapabilityCheck /\ pc = "done" /\ result.status = "timeout"
    /\ requests >= 1 /\ elapsed_time = max_wait_seconds

\* C5: when check_dataplane_status gives up on the timeout it returns
\* success=False, all_green=False, error "Timeout reached", with the dataplanes
\* and dataplane_statuses of one final request (empty lists when that request
\* fails or lists nothing), whatever that final response shows.
C5_TimeoutResult ==
    /\ (fn = "dataplane" /\ pc = "timeout") =>
          (elapsed_time >= max_wait_seconds /\ final_requests = 0)
    /\ (fn = "dataplane" /\ pc = "done" /\ elapsed_time >= max_wait_seconds) =>
          /\ final_requests = 1
          /\ result.success = FALSE /\ result.all_green = FALSE
          /\ result.error = "Timeout reached"
          /\ result.dataplanes =
                (IF last_response.kind = "ok" THEN last_response.dataplanes ELSE <<>>)
          /\ Len(result.dataplane_statuses) = Len(result.dataplanes)
          /\ \A i \in 1..Len(result.dataplanes) :
                /\ result.dataplane_statuses[i].id = result.dataplanes[i].dp_id
                /\ result.dataplane_statuses[i].status = result.dataplanes[i].status

C5_Witness ==
    /\ fn = "dataplane" /\ pc = "done" /\ final_requests = 1
    /\ result.dataplanes # <<>>
    /\ \A i \in 1..Len(result.dataplanes) :
          /\ result.dataplanes[i].status = "green"
          /\ result.dataplanes[i].capabilities = <<>>

\* C6: with a dataplane_id given, an attempt of check_dataplane_status is green
\* exactly when it would be green on the target's entries alone, and never when
\* the response holds no entry of the target.
C6_OnlyTargetDecides ==
    (/\ fn = "dataplane" /\ dataplane_id # None
     /\ requests > 0 /\ final_requests = 0 /\ pc \in {"loop", "done"}) =>
        LET green == pc = "done" /\ result.success
        IN  /\ green <=> EvaluateDataplanes(target_entries, dataplane_id).all_green
            /\ target_entries = <<>> => ~green

C6_Witness ==
    /\ fn = "dataplane" /\ dataplane_id # None /\ pc = "done" /\ result.success
    /\ \E i \in 1..Len(result.dataplanes) :
          /\ result.dataplanes[i].dp_id # dataplane_id
          /\ result.dataplanes[i].status # "green"

\* C7: the attempts value of the returned result equals the number of status
\* requests the polling loop sent, on success and on timeout.
C7_AttemptsEqualRequests ==
    (fn # "none" /\ pc = "done") => result.attempts = requests

\* ------------------------------------------------------------ claims: execute_commands_sequentially
ZeroExits == {i \in 1..Len(run_log) : run_log[i].outcome = "rc0"}

\* C8: execute_commands_sequentially returns success=True exactly when the list
\* is non-empty and every command completed with return code 0; for an empty
\* list it runs nothing and returns success=False, all counters 0, no results.
C8_SuccessIffAllZero ==
    exec_pc = "done" =>
        /\ exec_result.success <=>
              /\ commands # <<>>
              /\ Len(run_log) = Len(commands)
              /\ ZeroExits = 1..Len(commands)
        /\ commands = <<>> =>
              /\ run_log = <<>>
              /\ exec_result = [success |-> FALSE, total_commands |-> 0,
                                executed |-> 0, failed |-> 0, results |-> <<>>]

C8_Witness ==
    /\ exec_pc = "done" /\ Len(commands) >= 2
    /\ exec_result.success
    /\ exec_result.executed = Len(commands)

\* C9: every command of the list is attempted exactly once, in list order,
\* also after a non-zero exit, a timeout or an exception; results has one entry
\* per command in the same order and total_commands is the length of the list.
C9_EveryCommandOnceInOrder ==
    exec_pc = "done" =>
        /\ Len(run_log) = Len(commands)
        /\ \A i \in 1..Len(run_log) : run_log[i].index = i
        /\ exec_result.total_commands = Len(commands)
        /\ Len(exec_result.results) = Len(commands)
        /\ \A i \in 1..Len(commands) :
              /\ exec_result.results[i].command.text = commands[i].text
              /\ exec_result.results[i].command \in {commands[i], ConvertHeredoc(commands[i])}
              /\ exec_result.results[i].returncode = 0 <=> run_log[i].outcome = "rc0"

C9_Witness ==
    /\ exec_pc = "done" /\ Len(commands) = MaxCmds
    /\ commands[1].text # commands[2].text
    /\ run_log[1].outcome = "nonzero"
    /\ run_log[2].outcome \in {"timeout", "error", "tempfile_error"}
    /\ run_log[3].outcome = "rc0"

\* C10: in every result 0 <= failed <= executed <= total_commands, and
\* executed - failed is the number of commands that finished with return code 0.
C10_CountersOrdered ==
    (exec_pc = "done") =>
        /\ 0 <= exec_result.failed
        /\ exec_result.failed <= exec_result.executed
        /\ exec_result.executed <= exec_result.total_commands
        /\ exec_result.executed - exec_result.failed = Cardinality(ZeroExits)

\* ------------------------------------------------------------ claims: deployment
\* C11: for every input string sanitize_app_name returns a string of lowercase
\* alphanumeric characters and '-' only, with no leading or trailing '-' and no
\* two consecutive '-'; "BWCETimerLog" gives "bwcetimerlog" and "My_App_Name"
\* gives "my-app-name".
C11_SanitizedNameIsValid ==
    san_pc = "done" =>
        /\ \A i \in 1..Len(sanitized) :
              \/ \E k \in 1..Len(LowerCase) : sanitized[i] = LowerCase[k]
              \/ sanitized[i] \in Digits
              \/ sanitized[i] = "-"
        /\ sanitized # <<>> => (sanitized[1] # "-" /\ sanitized[Len(sanitized)] # "-")
        /\ \A i \in 1..(Len(sanitized) - 1) : ~(sanitized[i] = "-" /\ sanitized[i + 1] = "-")
        /\ app_name = ExampleCamel =>
              sanitized = <<"b", "w", "c", "e", "t", "i", "m", "e", "r", "l", "o", "g">>
        /\ app_name = ExampleSnake =>
              sanitized = <<"m", "y", "-", "a", "p", "p", "-", "n", "a", "m", "e">>

C11_Witness ==
    /\ san_pc = "done"
    /\ app_name = <<"_", "A", "_", "-">>
    /\ sanitized = <<"a">>

C13_DeployOnlyAfterBuildSuccess ==
    /\ Sent(fg_log, "deploy") =>
            LowerStatus(fg_status) \in {"success", "completed"}
    /\ (fg_pc = "done" /\ LowerStatus(fg_status) \in {"failed", "error"}) =>
            /\ ~Sent(fg_log, "deploy")
            /\ fg_result = BuildFailedOrTimedOut
    /\ (/\ fg_pc = "done"
        /\ Sent(fg_log, "create_build")
        /\ fg_log[Len(fg_log)].out = "ok"
        /\ LowerStatus(fg_status) \in {"none", "building", "", "not200"}) =>
            /\ fg_now - fg_start >= FlogoBuildMaxWait
            /\ ~Sent(fg_log, "deploy")
            /\ fg_result = BuildFailedOrTimedOut

\* A deployment that went through after at least one poll that saw the build
\* still running.
C13_Witness ==
    /\ fg_pc = "done" /\ fg_result.success
    /\ Sent(fg_log, "deploy")
    /\ fg_status = "completed"
    /\ fg_now - fg_start >= 2 * FlogoBuildPollInterval

C13_TimeoutReached ==
    /\ fg_pc = "done" /\ fg_status = "building"
    /\ fg_result = BuildFailedOrTimedOut

\* The dict of cap_results for a dataplane name (the first, as the code's
\* searches take it), or a dict saying there is none.
CapResultOf(dp_name) ==
    IF \E i \in 1..Len(cap_results) : cap_results[i].dataplane_name = dp_name
    THEN cap_results[CHOOSE i \in 1..Len(cap_results) :
            /\ cap_results[i].dataplane_name = dp_name
            /\ \A j \in 1..(i - 1) : cap_results[j].dataplane_name # dp_name]
    ELSE [dataplane_name |-> dp_name, success |-> FALSE,
          capability_instance_id |-> None, status |-> "none"]

\* C14: a deploy request is sent for an (application, dataplane) pair only if
\* the dataplane's capability of the matching type was reported green by the
\* latest capability status obtained before deployment.  (Checked in the
\* weaker form that the latest status check of that capability did not end
\* without green; a capability that was never checked is not counted.)
C14_DeployOnlyToGreenCapability ==
    \A k \in 1..Len(deploy_sent) :
        CapResultOf(deploy_sent[k]).status # "timeout"

\* ------------------------------------------------------------ claims: workflow
EulaOrder == <<"api", "selenium", "fallback">>

\* C15: submit_registration tries the EULA methods strictly in the order
\* REST API, Selenium, requests fallback; a later method is attempted only
\* if every earlier one failed (returned False), and none after a success.
C15_EulaMethodsInOrder ==
    /\ Len(eula_tried) <= Len(EulaOrder)
    /\ \A i \in 1..Len(eula_tried) :
        /\ eula_tried[i].method = EulaOrder[i]
        /\ i < Len(eula_tried) => eula_tried[i].out = "False"
    /\ (eula_pc = "done" /\ \E i \in 1..Len(eula_tried) : eula_tried[i].out = "True") =>
            eula_result = "True"

\* Selenium succeeded after the REST API method failed; the fallback was not tried.
C15_Witness ==
    /\ eula_pc = "done" /\ eula_result = "True"
    /\ Len(eula_tried) = 2
    /\ eula_tried[1] = [method |-> "api", out |-> "False"]
    /\ eula_tried[2] = [method |-> "selenium", out |-> "True"]

\* C16: when a run of deploy_apps_only.py deployed at least one application
\* successfully with an app_id, it has written deployed_apps.json holding,
\* for each such application, its app_id, dataplane_id and capability_id.
C16_DeployedAppsFileWritten ==
    dao_pc = "done" =>
        \A i \in 1..Len(dao_results) :
            (dao_results[i].success /\ dao_results[i].app_id # None) =>
                /\ file_written
                /\ \E k \in 1..Len(file_apps) :
                    /\ file_apps[k].app_id = dao_results[i].app_id
                    /\ file_apps[k].dataplane_id = dao_results[i].dataplane
                    /\ file_apps[k].capability_id = dataplane_map[dao_results[i].dataplane]
                    /\ file_apps[k].capability_id # None

\* C17: given at least one selected application and credentials, start_apps.py
\* logs in (at most 3 attempts) and sends a start request for every selected
\* application that has app_id, dataplane_id and capability_id; it returns 0
\* exactly when every selected application was started.  (A run whose login
\* was refused is not counted against the claim: the formula looks only at
\* runs that made fewer than 3 attempts or sent requests.)
C17_StartsEverySelectedApp ==
    (sa_pc = "done" /\ Len(sa_apps) > 0 /\ sa_credentials) =>
        /\ sa_login_attempts \in 1..max_retries
        /\ (sa_login_attempts < max_retries \/ Len(sa_requests) > 0) =>
                \A i \in 1..Len(sa_apps) :
                        sa_apps[i] => \E k \in 1..Len(sa_requests) : sa_requests[k] = i
        /\ (sa_login_attempts < max_retries \/ Len(sa_requests) > 0) =>
                /\ sa_exit = 0 <=> (Len(sa_results) = Len(sa_apps) /\ AllStarted(sa_results))

\* C18: when the invited user already exists, main() skips invitation and
\* registration and continues the workflow (step 7, Register Dataplanes, and
\* what follows) with the CP admin session.
C18_ExistingUserContinues ==
    (wf_pc = "done" /\ already_exists) =>
        /\ ~wf_invited /\ ~wf_registered
        /\ wf_session = "cp_admin"
        /\ wf_step7

\* C19: with several target prefixes, each iteration of main() uses only
\* results produced in that iteration (bwce_results, successful_bwce, the
\* stored storage resource id).
C19_IterationUsesOwnResults ==
    \A u \in it_uses : u.produced = u.iter

\* C20: the new-user login verification makes at most 5 attempts and stops
\* at the first success; after each failed attempt except the last it waits
\* 15 x attempt seconds; "Fail (Permissions Pending)" is recorded only after
\* all 5 attempts failed; dataplane registration starts only if the
\* verification passed.
C20_LoginVerificationRetries ==
    /\ Len(wf_logins) <= new_user_max_retries
    /\ \A i \in 1..(Len(wf_logins) - 1) : wf_logins[i] = "fail"
    /\ \A k \in 1..Len(wf_sleeps) : wf_sleeps[k] = 15 * k /\ wf_logins[k] = "fail"
    /\ wf_pc = "verify" => Len(wf_sleeps) = Len(wf_logins)
    /\ (wf_pc # "verify" /\ Len(wf_logins) > 0) => Len(wf_sleeps) = Len(wf_logins) - 1
    /\ wf_summary.verification = "Fail (Permissions Pending)" =>
            /\ Len(wf_logins) = new_user_max_retries
            /\ \A i \in 1..Len(wf_logins) : wf_logins[i] = "fail"
    /\ wf_summary.verification = "Pass" =>
            wf_logins[Len(wf_logins)] = "ok"
    /\ wf_dataplanes =>
            /\ wf_summary.verification = "Pass"
            /\ wf_logins[Len(wf_logins)] = "ok"

\* The verification passed at the third attempt, after waits of 15 and 30
\* seconds, and dataplane registration started.
C20_Witness ==
    /\ wf_dataplanes
    /\ wf_logins = <<"fail", "fail", "ok">>
    /\ wf_sleeps = <<15, 30>>

\* All five attempts failed.
C20_PermissionsPending ==
    /\ wf_pc = "done"
    /\ wf_summary.verification = "Fail (Permissions Pending)"
    /\ wf_sleeps = <<15, 30, 45, 60>>
    /\ ~wf_dataplanes

\* The last attempt that sent a request did not return from the function.
LastAttemptRetried == requests > 0 /\ ~(pc = "done" /\ result.success)

\* C21: in each of the three polling functions, an attempt that sent its status
\* request and did not return made exactly one time.sleep call, of
\* poll_interval_seconds, whatever branch it took (not green, target dataplane or
\* capability not found, empty dataplane list, non-200 response, exception): the
\* time between the response of one attempt and the request of the next is
\* exactly one poll interval.
C21_OneSleepPerRetriedAttempt ==
    (fn \in {"dataplane", "bwce", "flogo"} /\ LastAttemptRetried) =>
        /\ sleep_calls = 1
        /\ now = response_at + poll_interval_seconds
        /\ branch \in {"none", "not_green", "target_not_found", "dataplane_not_found",
                       "capability_not_found", "no_dataplanes", "http_error",
                       "exception"}

\* A capability check found its capability not green on the second attempt, slept
\* and is about to start the third attempt.
C21_Witness ==
    /\ fn = "flogo" /\ pc = "loop" /\ attempts = 2 /\ requests = 2
    /\ branch = "not_green" /\ sleep_calls = 1
    /\ now = response_at + poll_interval_seconds

\* Each sleeping branch of each function is taken.
C21_BranchTaken(f, b) == fn = f /\ pc = "loop" /\ branch = b /\ sleep_calls = 1
C21_DataplaneEmptyList == C21_BranchTaken("dataplane", "no_dataplanes")
C21_DataplaneTargetNotFound == C21_BranchTaken("dataplane", "target_not_found")
C21_DataplaneNotGreen == C21_BranchTaken("dataplane", "not_green")
C21_DataplaneNon200 == C21_BranchTaken("dataplane", "http_error")
C21_DataplaneException == C21_BranchTaken("dataplane", "exception")
C21_BwceCapabilityNotFound == C21_BranchTaken("bwce", "capability_not_found")
C21_BwceDataplaneNotFound == C21_BranchTaken("bwce", "dataplane_not_found")
C21_BwceNotGreen == C21_BranchTaken("bwce", "not_green")
C21_FlogoCapabilityNotFound == C21_BranchTaken("flogo", "capability_not_found")
C21_FlogoException == C21_BranchTaken("flogo", "exception")

====
